---- MODULE Spec2Model ----
(***************************************************************************)
(* A model of the intent orchestration and execution engine of tagent:     *)
(*   intent_system/orchestration/orchestrator.py   IntentOrchestrator      *)
(*   intent_system/execution/intent_executor.py    IntentExecutor          *)
(*   intent_system/execution/execution_tracker.py  ExecutionTracker        *)
(*   intent_system/data_flow/data_flow_engine.py   DataFlowEngine          *)
(*   intent_system/core/intent_registry.py         IntentRegistry          *)
(*   intent_system/agent/nodes.py, agent/state.py  the nodes of the agent  *)
(*   intent_system/yagent/graph.py                 the agent graph         *)
(*   intent_system/workflow/workflow_manager.py    WorkflowIntentManager   *)
(*   intent_system/workflow/workflow_intent.py     WorkflowIntentDefinition*)
(*                                                                         *)
(* The specifications share the definitions:                               *)
(*   SpecOrch  orchestrate() applied to every small registry, request and  *)
(*             list of dependency hints;                                   *)
(*   SpecMap   orchestrate() applied to requests with and without global   *)
(*             parameters, sub intent parameters and context, on intents   *)
(*             with conflicts and with required or defaulted inputs;       *)
(*   Spec      orchestrate() followed by execute_plan / execute_plan_async *)
(*             on the plan it returned, the executable units succeeding,   *)
(*             raising or timing out as they please;                       *)
(*   SpecPrio  orchestrate() on registered intents that carry priorities;  *)
(*   SpecReg   register and unregister calls on an IntentRegistry;         *)
(*   SpecDeps  validate_dependencies() on every small registry;            *)
(*   SpecExpr  ExpressionParser.evaluate on "{{ .. }}" expressions;        *)
(*   SpecCalls two execute_plan_async calls in progress on one executor;   *)
(*   SpecAgent the agent graph from intent_parse to END, SpecAgentLive     *)
(*             the same with the graph running the next node as long as    *)
(*             there is one;                                               *)
(*   SpecFlow  register_intent, set_current_intent and process_completion  *)
(*             calls on a WorkflowIntentManager.                           *)
(***************************************************************************)
EXTENDS Integers, Sequences, FiniteSets, TLC

(***************************************************************************)
(* Bounds of the model.                                                    *)
(***************************************************************************)
\* longest request (primary intent + sub intents) SpecOrch draws
MaxReq == 3
\* most "A depends on B" hints a request carries
MaxHints == 1
\* largest metadata.retry_count a registered intent carries
MaxRetry == 1
\* most sub intents of a request SpecMap draws
MaxSub == 1
\* nesting depth of execute_single_intent calls at which the interpreter's
\* recursion limit ends the retry recursion with a RecursionError
MaxDepth == 3

\* the intent ids of the model
Ids == {"a", "b", "c"}

Range(s) == {s[i] : i \in 1..Len(s)}

Min(S) == CHOOSE x \in S : \A y \in S : x <= y

\* the sequences over S of length lo..hi
SeqsOf(S, lo, hi) == UNION {[1..n -> S] : n \in lo..hi}

VARIABLES
    registry,      \* IntentRegistry: registered id -> metadata
    request,       \* parse_result.get_all_intent_ids(): primary + sub intents
    hints,         \* parse_result.dependencies, each "A depends on B" as <<A, B>>
    parameters,    \* parse_result.parameters: the global parameters
    sub_parameters,\* sub["parameters"] of each sub intent, in request order
    context,       \* the context handed to orchestrate; <<>>: None or empty
    plan,          \* the IntentOrchestrationPlan orchestrate returned
    opc            \* where the orchestrate call is: "ready", "done"

orchVars == <<registry, request, hints, parameters, sub_parameters, context,
              plan, opc>>

VARIABLES
    mode,          \* "sync": execute_plan, "async": execute_plan_async
    epc,           \* where the execute_plan call is
    cur,           \* index of the layer the plan loop is at
    pos,           \* index in the layer of the next intent to start
    tracker,       \* ExecutionTracker: current_session_id, traces, data_context
    task,          \* per intent: its execute_single_intent call in this plan run
    attempts,      \* per intent: how each invocation of its executor ended
    layer_results, \* results of execute_layer_sync so far
    results        \* results of execute_plan

execVars == <<mode, epc, cur, pos, tracker, task, attempts, layer_results, results>>

VARIABLES
    intents,       \* IntentRegistry._intents: the definitions, in insertion order
    categories,    \* IntentRegistry._categories: category -> list of ids
    tags_index,    \* IntentRegistry._tags_index: tag -> list of ids
    last           \* the last call made on the registry and what it returned

regVars == <<intents, categories, tags_index, last>>

VARIABLES
    the_expression, \* the expression handed to ExpressionParser.evaluate
    the_context,    \* the context it is evaluated against
    the_value,      \* what evaluate returned
    xpc             \* where the evaluate call is: "ready", "done"

exprVars == <<the_expression, the_context, the_value, xpc>>

VARIABLES
    callers,        \* the execute_plan_async calls in progress on one executor
    agent,          \* the state of a run of the agent graph
    manager         \* a WorkflowIntentManager and the registry it wraps

appVars == <<callers, agent, manager>>

\* the state of the parts a specification does not exercise
libVars == <<regVars, exprVars, appVars>>

vars == <<orchVars, execVars, libVars>>

(***************************************************************************)
(* IntentRegistry.get and the metadata the engine reads.                   *)
(***************************************************************************)
Dependencies(reg, id) ==
    IF id \in DOMAIN reg THEN reg[id].dependencies ELSE {}

Metadata == [dependencies : SUBSET Ids, retry_count : 0..MaxRetry]

(***************************************************************************)
(* Values.  A value is the output of an intent's executor, None, the text  *)
(* of the expression "$p" (a reference to the data context entry of intent *)
(* p), the text of the expression "{{ $json.n }}", some other text that is *)
(* neither a number nor JSON, or the boolean True.                         *)
(***************************************************************************)
Out(id) == [t |-> "out", of |-> id]

Expr(p) == [t |-> "expr", of |-> p]

Ref(n) == [t |-> "ref", of |-> n]

Text(s) == [t |-> "text", of |-> s]

BoolTrue == [t |-> "bool", of |-> "True"]

None == [t |-> "none", of |-> ""]

\* the {"error": str(e)} entry of a result map
ErrorEntry(e) == [t |-> "error", of |-> e]

\* str(v) of a schema default
Str(v) == IF v.t = "bool" THEN Text(v.of) ELSE v

\* the JSON-schema type names isinstance accepts the value for
\* (intent_definition.py lines 92-105)
TypesOf(v) ==
    CASE v.t \in {"expr", "ref", "text"} -> {"string"}
      [] v.t = "bool" -> {"boolean", "integer", "number"}
      [] v.t = "out" -> {"object"}
      [] OTHER -> {}

(***************************************************************************)
(* InputOutputSchema.inputs: parameter name -> parameter definition, and   *)
(* InputOutputSchema.validate_input.  type "any": the definition has no    *)
(* "type"; has_default, has_enum: it has the key.  The names of the        *)
(* parameters are taken from Ids: the requests of Spec bind the parameter  *)
(* named p to the expression "$p".                                         *)
(***************************************************************************)
ParamDef(required, type, has_default, default, has_enum) ==
    [required |-> required, type |-> type,
     has_default |-> has_default, default |-> default,
     has_enum |-> has_enum, enum |-> {Out(p) : p \in Ids}]

AnyParam == ParamDef(FALSE, "any", FALSE, None, FALSE)

validate_input(inputs, data) ==
    \A param_name \in DOMAIN inputs :
        LET param_def == inputs[param_name]
        IN  /\ param_def.required => param_name \in DOMAIN data
            /\ param_name \in DOMAIN data =>
                  /\ param_def.type = "any"
                        \/ param_def.type \in TypesOf(data[param_name])
                  /\ param_def.has_enum => data[param_name] \in param_def.enum

\* the inputs every intent of SpecOrch and Spec declares unless said
\* otherwise: one per other intent, untyped, not required, no default
Inputs(id) == Ids \ {id}

PlainInputs(id) == [p \in Inputs(id) |-> AnyParam]

\* an IntentDefinition as the engine reads it: metadata.dependencies,
\* metadata.retry_count, metadata.conflicts and schema.inputs
Definition(m, conflicts, inputs) ==
    [dependencies |-> m.dependencies, retry_count |-> m.retry_count,
     conflicts |-> conflicts, inputs |-> inputs]

(***************************************************************************)
(* IntentParseResult.get_all_intent_ids and get_intent_parameters.         *)
(***************************************************************************)
ParseResult(ids, deps, params, subs) ==
    [ids |-> ids, dependencies |-> deps, parameters |-> params,
     sub_parameters |-> subs]

get_all_intent_ids(pr) == pr.ids

get_intent_parameters(pr, intent_id) ==
    IF intent_id = pr.ids[1] THEN pr.parameters
    ELSE LET found == {k \in 2..Len(pr.ids) : pr.ids[k] = intent_id}
         IN  IF found = {} THEN <<>> ELSE pr.sub_parameters[Min(found) - 1]

(***************************************************************************)
(* IntentOrchestrator._build_dependency_graph.  A graph is a dict, kept    *)
(* as its keys in insertion order and the adjacency list of each key:      *)
(* adj[d] lists the intents that depend on d.                              *)
(***************************************************************************)
RECURSIVE DictKeys(_, _)
DictKeys(ids, acc) ==
    IF ids = <<>> THEN acc
    ELSE DictKeys(Tail(ids),
                  IF Head(ids) \in Range(acc) THEN acc ELSE Append(acc, Head(ids)))

build_dependency_graph(reg, intent_ids, additional_dependencies) ==
    LET keys == DictKeys(intent_ids, <<>>)
        K == Range(keys)
        \* for intent_id in intent_ids: for dep_id in dependencies:
        \*     if dep_id in graph: graph[dep_id].append(intent_id)
        fromMeta(d) == SelectSeq(intent_ids, LAMBDA i : d \in Dependencies(reg, i))
        \* "A depends on B" with both in graph: graph[B].append(A)
        hs(d) == SelectSeq(additional_dependencies,
                           LAMBDA h : h[2] = d /\ h[1] \in K)
        fromHints(d) == [k \in 1..Len(hs(d)) |-> hs(d)[k][1]]
    IN  [keys |-> keys, adj |-> [d \in K |-> fromMeta(d) \o fromHints(d)]]

(***************************************************************************)
(* IntentOrchestrator._topological_sort: Kahn's algorithm on a deque.      *)
(***************************************************************************)
Occurrences(s, x) == Cardinality({i \in 1..Len(s) : s[i] = x})

RECURSIVE SumOver(_, _, _)
SumOver(keys, adj, x) ==
    IF keys = <<>> THEN 0
    ELSE Occurrences(adj[Head(keys)], x) + SumOver(Tail(keys), adj, x)

InDegree(g) == [n \in Range(g.keys) |-> SumOver(g.keys, g.adj, n)]

\* for dependent in graph[node]: in_degree[dependent] -= 1; enqueue at 0
RECURSIVE Relax(_, _, _)
Relax(dependents, in_degree, queue) ==
    IF dependents = <<>> THEN [in_degree |-> in_degree, queue |-> queue]
    ELSE LET d == Head(dependents)
             nd == [in_degree EXCEPT ![d] = @ - 1]
         IN  Relax(Tail(dependents), nd,
                   IF nd[d] = 0 THEN Append(queue, d) ELSE queue)

RECURSIVE KahnLoop(_, _, _, _)
KahnLoop(g, in_degree, queue, result) ==
    IF queue = <<>> THEN result
    ELSE LET node == Head(queue)
             r == Relax(g.adj[node], in_degree, Tail(queue))
         IN  KahnLoop(g, r.in_degree, r.queue, Append(result, node))

\* raised: the ValueError of line 169
topological_sort(g) ==
    LET in_degree == InDegree(g)
        queue == SelectSeq(g.keys, LAMBDA n : in_degree[n] = 0)
        result == KahnLoop(g, in_degree, queue, <<>>)
    IN  [raised |-> Len(result) # Len(g.keys), result |-> result]

(***************************************************************************)
(* IntentOrchestrator._get_dependencies: the keys whose adjacency list     *)
(* holds node, that is node's DIRECT dependencies.  The list it returns is *)
(* only ever tested for membership.                                        *)
(***************************************************************************)
get_dependencies(node, g) ==
    {other \in Range(g.keys) : node \in Range(g.adj[other])}

(***************************************************************************)
(* IntentOrchestrator._build_execution_layers.                             *)
(***************************************************************************)
\* a test that lets node join any layer
can_join_any(node, layer, g) ==
    TRUE

\* lines 205-214: node joins a layer none of whose members is one of its
\* dependencies or has node among its dependencies
can_join(node, layer, g) ==
    \A i \in 1..Len(layer) :
        /\ layer[i] \notin get_dependencies(node, g)
        /\ node \notin get_dependencies(layer[i], g)

\* a placement that opens a layer for every node
PlaceNodeAlone(node, layers, g) ==
    Append(layers, <<node>>)

\* lines 202-225: the first layer node can join, else a new layer
PlaceNode(node, layers, g) ==
    LET joinable == {k \in 1..Len(layers) : can_join(node, layers[k], g)}
    IN  IF joinable = {} THEN Append(layers, <<node>>)
        ELSE [layers EXCEPT ![Min(joinable)] = Append(@, node)]

RECURSIVE LayerLoop(_, _, _, _)
LayerLoop(order, layers, placed, g) ==
    IF order = <<>> THEN layers
    ELSE LET node == Head(order)
         IN  IF ~(get_dependencies(node, g) \subseteq placed)
             THEN LayerLoop(Tail(order), layers, placed, g)
             ELSE LayerLoop(Tail(order), PlaceNode(node, layers, g),
                            placed \cup {node}, g)

build_execution_layers(g, execution_order) ==
    LayerLoop(execution_order, <<>>, {}, g)

(***************************************************************************)
(* IntentOrchestrator._generate_data_mappings.  Unregistered intents get   *)
(* no mapping (lines 276-278).                                             *)
(***************************************************************************)
\* `context and param_name in context`
InContext(ctx, param_name) == ctx # <<>> /\ param_name \in DOMAIN ctx

\* lines 285-298: whether one of the four sources supplies the parameter
HasSource(param_name, param_def, intent_params, params, ctx) ==
    \/ param_name \in DOMAIN intent_params
    \/ param_name \in DOMAIN params
    \/ InContext(ctx, param_name)
    \/ param_def.has_default

\* lines 284-298
input_mapping(inputs, intent_params, params, ctx) ==
    [param_name \in {n \in DOMAIN inputs :
                        HasSource(n, inputs[n], intent_params, params, ctx)} |->
        IF param_name \in DOMAIN intent_params THEN intent_params[param_name]
        ELSE IF param_name \in DOMAIN params THEN params[param_name]
        ELSE IF InContext(ctx, param_name) THEN Ref(param_name)
        ELSE Str(inputs[param_name].default)]

generate_data_mappings(reg, intent_ids, parse_result, ctx) ==
    [i \in Range(intent_ids) \cap DOMAIN reg |->
        input_mapping(reg[i].inputs, get_intent_parameters(parse_result, i),
                      parse_result.parameters, ctx)]

(***************************************************************************)
(* IntentOrchestrator.orchestrate.  outcome is "plan" when a plan is       *)
(* returned; the ValueError of the sort is caught at lines 65-67 and the   *)
(* request's own order used instead, so nothing else ever comes out.       *)
(***************************************************************************)
NoGraph == [keys |-> <<>>, adj |-> <<>>]

NoPlan ==
    [outcome |-> "none", execution_graph |-> NoGraph,
     execution_layers |-> <<>>, data_mappings |-> <<>>,
     execution_order |-> <<>>]

orchestrate(reg, parse_result, ctx) ==
    LET all_intents == get_all_intent_ids(parse_result)
    IN
    IF all_intents = <<>>
    THEN [NoPlan EXCEPT !.outcome = "plan"]
    ELSE LET g == build_dependency_graph(reg, all_intents,
                                         parse_result.dependencies)
             sorted == topological_sort(g)
             execution_order ==
                 IF sorted.raised THEN all_intents ELSE sorted.result
         IN  [outcome |-> "plan",
              execution_graph |-> g,
              execution_layers |-> build_execution_layers(g, execution_order),
              data_mappings |-> generate_data_mappings(reg, all_intents,
                                                       parse_result, ctx),
              execution_order |-> execution_order]

(***************************************************************************)
(* The values the expression parser walks and the "{{ .. }}" expressions.  *)
(* Template(json, path, pad) is the text "{{ " + ("$json." if json) + path *)
(* + (" " if pad) + "}}": path a list of segments, the first a name, the   *)
(* others ".name", "[i]" or ".i".  Ref(n) is the text "{{ $json.n }}".     *)
(***************************************************************************)
Dict(items) == [t |-> "dict", items |-> items]

List(elems) == [t |-> "list", elems |-> elems]

Name(n) == [seg |-> "name", of |-> n]

Index(i) == [seg |-> "index", at |-> i]

DotIndex(i) == [seg |-> "dot_index", at |-> i]

Template(json, path, pad) ==
    [t |-> "template", json |-> json, path |-> path, pad |-> pad]

\* the exception a call raised, as a value
Raised(e) == [t |-> "raised", of |-> e]

(***************************************************************************)
(* ExpressionParser._parse_path.  The keys it returns are texts: the name  *)
(* n (KeyName), the digits of i (KeyDigits), or a text that is neither a   *)
(* name nor digits (KeyOther).  '[' is replaced by '.[' and ']' removed,   *)
(* so the segment "[i]" gives the text "[i"; n8n_pattern (line 24)         *)
(* captures [^}]+, so the blank before "}}" stays on the last key.         *)
(***************************************************************************)
KeyName(n) == [key |-> "name", of |-> n]

KeyDigits(i) == [key |-> "digits", at |-> i]

KeyOther == [key |-> "other"]

parse_path(path, pad) ==
    [k \in 1..Len(path) |->
        IF path[k].seg = "index" \/ (pad /\ k = Len(path)) THEN KeyOther
        ELSE IF path[k].seg = "name" THEN KeyName(path[k].of)
        ELSE KeyDigits(path[k].at)]

(***************************************************************************)
(* ExpressionParser._get_nested_value, lines 126-144: the loop over the    *)
(* keys.  No dict of the model has a key that is a KeyOther text.          *)
(***************************************************************************)
RECURSIVE WalkKeys(_, _)
WalkKeys(val, keys) ==
    IF keys = <<>> THEN val
    ELSE IF val = None THEN None
    ELSE LET key == Head(keys)
         IN  IF key.key = "digits"
             THEN IF val.t = "list" /\ key.at < Len(val.elems)
                  THEN WalkKeys(val.elems[key.at + 1], Tail(keys))
                  ELSE None
             ELSE IF val.t = "dict"
             THEN IF key.key = "name" /\ key.of \in DOMAIN val.items
                  THEN WalkKeys(val.items[key.of], Tail(keys))
                  ELSE None
             ELSE None

\* line 120: `if not data: return None`
get_nested_value(ctx, path, pad) ==
    IF ctx = <<>> THEN None ELSE WalkKeys(Dict(ctx), parse_path(path, pad))

(***************************************************************************)
(* ExpressionParser._evaluate_n8n_expression on an expression that is one  *)
(* "{{ .. }}" and nothing else (lines 84-92).  Without "$json." the        *)
(* pattern finds no match and the expression is returned (lines 86-87).    *)
(***************************************************************************)
evaluate_n8n_expression(expr, json, path, pad, ctx) ==
    IF ~json THEN expr
    ELSE LET val == get_nested_value(ctx, path, pad)
         IN  IF val # None THEN val ELSE expr

(***************************************************************************)
(* ExpressionParser.evaluate: "{{ .. }}" (lines 42-43), "$p" (lines        *)
(* 46-48), other text, none of which is a number or JSON in the model      *)
(* (lines 58-66).  A value that is not a string makes `'{{' in expression` *)
(* raise a TypeError (line 42).  And DataFlowEngine.resolve_mapping.       *)
(***************************************************************************)
evaluate(expression, ctx) ==
    CASE expression.t = "template" ->
            evaluate_n8n_expression(expression, expression.json,
                                    expression.path, expression.pad, ctx)
      [] expression.t = "ref" ->
            evaluate_n8n_expression(expression, TRUE, <<Name(expression.of)>>,
                                    TRUE, ctx)
      [] expression.t = "expr" ->
            IF expression.of \in DOMAIN ctx THEN ctx[expression.of] ELSE expression
      [] expression.t = "text" -> expression
      [] OTHER -> Raised("TypeError")

resolve_mapping(mapping, previous_results) ==
    [key \in DOMAIN mapping |-> evaluate(mapping[key], previous_results)]

\* plan.data_mappings.get(intent_id, {})
MappingOf(p, id) ==
    IF id \in DOMAIN p.data_mappings THEN p.data_mappings[id] ELSE <<>>

(***************************************************************************)
(* ExecutionTracker.  A trace keeps the fields the engine reads; the       *)
(* clock is not modelled.  Traces are objects: a call holds its trace by   *)
(* its index in tracker.traces.                                            *)
(***************************************************************************)
NewTracker == [current_session_id |-> "None", traces |-> <<>>, data_context |-> <<>>]

start_session(tk, session_id) ==
    [current_session_id |-> session_id, traces |-> <<>>, data_context |-> <<>>]

end_session(tk) == [tk EXCEPT !.current_session_id = "None"]

start_intent(tk, intent_id, input_data) ==
    [tk EXCEPT !.traces =
        Append(@, [intent_id |-> intent_id, status |-> "running",
                   input_data |-> input_data, output_data |-> None,
                   error |-> "None", retry_count |-> 0])]

\* complete_intent without lines 92-94, the write of the data context
complete_intent_unshared(tk, tr, output_data, error) ==
    [tk EXCEPT
        !.traces[tr] = [@ EXCEPT
                    !.output_data = output_data,
                    !.status = IF error = "None" THEN "success" ELSE "failed",
                    !.error = error]]

\* error = "None": no error
complete_intent(tk, tr, output_data, error) ==
    LET id == tk.traces[tr].intent_id
        done == [tk.traces[tr] EXCEPT
                    !.output_data = output_data,
                    !.status = IF error = "None" THEN "success" ELSE "failed",
                    !.error = error]
    IN  [tk EXCEPT
            !.traces[tr] = done,
            !.data_context =
                IF error = "None" /\ output_data # None
                THEN [k \in DOMAIN @ \cup {id} |->
                        IF k = id THEN output_data ELSE @[k]]
                ELSE @]

fail_intent(tk, tr, error) == complete_intent(tk, tr, None, error)

retry_intent(tk, tr) ==
    [tk EXCEPT !.traces[tr] =
        [@ EXCEPT !.retry_count = @ + 1, !.status = "running", !.error = "None"]]

\* the first trace of the intent, 0 for None
get_trace_by_intent(tk, intent_id) ==
    LET found == {i \in 1..Len(tk.traces) : tk.traces[i].intent_id = intent_id}
    IN  IF found = {} THEN 0 ELSE Min(found)

(***************************************************************************)
(* IntentExecutor.execute_single_intent / execute_single_intent_async.     *)
(* A call is [pc, depth, trace, res]: pc "idle" before the call, "run"     *)
(* while the executor of the intent runs, "done" once the call returned    *)
(* or raised; depth counts the nested calls the retries made; trace is     *)
(* the innermost call's trace; res is the value returned, or the error     *)
(* raised as an ErrorEntry.                                                *)
(***************************************************************************)
IdleCall == [pc |-> "idle", depth |-> 0, trace |-> 0, res |-> None]

\* the call without lines 137-140, the validation of the input
EnterUnvalidated(tk, reg, intent_id, input_data, depth) ==
    IF intent_id \notin DOMAIN reg
    THEN [tracker |-> tk,
          call |-> [pc |-> "done", depth |-> depth, trace |-> 0,
                    res |-> ErrorEntry("not found")]]
    ELSE LET tk1 == start_intent(tk, intent_id, input_data)
         IN  [tracker |-> tk1,
              call |-> [pc |-> "run", depth |-> depth,
                        trace |-> Len(tk1.traces), res |-> None]]

\* lines 131-156 (63-92): the call up to the point where the executor
\* runs; the ValueError of an unknown intent (132-133) and of a rejected
\* input (137-140) are raised before the try
Enter(tk, reg, intent_id, input_data, depth) ==
    IF intent_id \notin DOMAIN reg
    THEN [tracker |-> tk,
          call |-> [pc |-> "done", depth |-> depth, trace |-> 0,
                    res |-> ErrorEntry("not found")]]
    ELSE LET tk1 == start_intent(tk, intent_id, input_data)
             tr == Len(tk1.traces)
         IN  IF ~validate_input(reg[intent_id].inputs, input_data)
             THEN [tracker |-> fail_intent(tk1, tr, "validation"),
                   call |-> [pc |-> "done", depth |-> depth, trace |-> tr,
                             res |-> ErrorEntry("validation")]]
             ELSE [tracker |-> tk1,
                   call |-> [pc |-> "run", depth |-> depth,
                             trace |-> tr, res |-> None]]

\* how an invocation of the executor may end
Outcomes == {"ok", "none", "raise", "timeout"}

\* lines 170, 108: whether the failed attempt is tried again
ShouldRetry(tk, reg, tr) ==
    tk.traces[tr].retry_count < reg[tk.traces[tr].intent_id].retry_count

\* lines 158-176 (94-112): the executor ended with outcome o
Leave(tk, reg, call, o) ==
    LET tr == call.trace
        id == tk.traces[tr].intent_id
        ret(t, v) == [tracker |-> t, call |-> [call EXCEPT !.pc = "done", !.res = v]]
    IN  CASE o = "ok" -> ret(complete_intent(tk, tr, Out(id), "None"), Out(id))
          [] o = "none" -> ret(complete_intent(tk, tr, None, "None"), None)
          [] o = "timeout" -> ret(fail_intent(tk, tr, "timeout"), ErrorEntry("timeout"))
          [] o = "raise" ->
                LET tk1 == fail_intent(tk, tr, "raise")
                IN  IF ShouldRetry(tk1, reg, tr)
                    THEN LET tk2 == retry_intent(tk1, tr)
                         IN  IF call.depth >= MaxDepth
                             THEN ret(tk2, ErrorEntry("recursion"))
                             ELSE Enter(tk2, reg, id, tk2.traces[tr].input_data,
                                        call.depth + 1)
                    ELSE ret(tk1, ErrorEntry("raise"))

\* lines 324-330 (260-270): resolve the mapping, then make the call
\* an exception of resolve_mapping leaves before the call is made
execute_intent_in_layer(tk, reg, p, intent_id) ==
    LET input_data == resolve_mapping(MappingOf(p, intent_id), tk.data_context)
    IN  IF \E key \in DOMAIN input_data : input_data[key].t = "raised"
        THEN [tracker |-> tk,
              call |-> [pc |-> "done", depth |-> 1, trace |-> 0,
                        res |-> ErrorEntry("TypeError")]]
        ELSE Enter(tk, reg, intent_id, input_data, 1)

(***************************************************************************)
(* The orchestrate call.                                                   *)
(***************************************************************************)
\* the registries of intents without conflicts and with plain inputs
PlainRegistry(f) == [i \in DOMAIN f |-> Definition(f[i], {}, PlainInputs(i))]

Registries ==
    UNION {{PlainRegistry(f) : f \in [R -> Metadata]} : R \in SUBSET Ids}

\* the request binds the parameter named p to "$p", for every intent
RefParameters(names) == [p \in names |-> Expr(p)]

NoSubParameters == [k \in 1..(Len(request) - 1) |-> <<>>]

HintLists == SeqsOf(Ids \X Ids, 0, MaxHints)

\* an IntentDefinition as the registry reads it: metadata.id,
\* metadata.category, metadata.tags and metadata.dependencies, both lists
RegDef(id, category, tags, dependencies) ==
    [id |-> id, category |-> category, tags |-> tags,
     dependencies |-> dependencies]

NoDef == RegDef("", "", <<>>, <<>>)

\* a call on the registry: the operation, the id it was about, the
\* definition it registered or removed, what it returned or raised, and
\* the list validate_dependencies returned
Call(op, id, def, returned, errors) ==
    [op |-> op, id |-> id, def |-> def, returned |-> returned, errors |-> errors]

\* no call was made on the registry
NoCall == Call("none", "", NoDef, "None", <<>>)

RegIdle ==
    /\ intents = <<>>
    /\ categories = <<>>
    /\ tags_index = <<>>
    /\ last = NoCall

ExprIdle ==
    /\ the_expression = None
    /\ the_context = <<>>
    /\ the_value = None
    /\ xpc = "idle"

AppIdle ==
    /\ callers = <<>>
    /\ agent = [node |-> "idle"]
    /\ manager = [pc |-> "idle"]

LibIdle == RegIdle /\ ExprIdle /\ AppIdle

ExecIdle ==
    /\ epc = "idle"
    /\ cur = 0
    /\ pos = 0
    /\ tracker = NewTracker
    /\ task = [i \in Ids |-> IdleCall]
    /\ attempts = [i \in Ids |-> <<>>]
    /\ layer_results = <<>>
    /\ results = <<>>

InitOrch ==
    /\ registry \in {r \in Registries : \A i \in DOMAIN r : r[i].retry_count = 0}
    /\ request \in SeqsOf(Ids, 1, MaxReq)
    /\ hints \in HintLists
    /\ parameters = RefParameters(Ids)
    /\ sub_parameters = NoSubParameters
    /\ context = <<>>
    /\ plan = NoPlan
    /\ opc = "ready"
    /\ mode = "none"
    /\ ExecIdle
    /\ LibIdle

CallOrchestrate ==
    /\ opc = "ready"
    /\ plan' = orchestrate(registry,
                ParseResult(request, hints, parameters, sub_parameters),
                context)
    /\ opc' = "done"
    /\ UNCHANGED <<registry, request, hints, parameters, sub_parameters, context>>
    /\ UNCHANGED <<execVars, libVars>>

NextOrch == CallOrchestrate

SpecOrch == InitOrch /\ [][NextOrch]_vars

(***************************************************************************)
(* The orchestrate calls SpecMap draws: a, b and c registered without      *)
(* dependencies, one of them declaring conflicts; every intent declaring   *)
(* one input, required or not, without default or with a default that is   *)
(* a text or a boolean; the request with or without global parameters, sub *)
(* intent parameters and context.                                          *)
(***************************************************************************)
MapDefs ==
    {ParamDef(r, "any", FALSE, None, FALSE) : r \in BOOLEAN}
        \cup {ParamDef(r, "any", TRUE, d, FALSE) :
                    r \in BOOLEAN, d \in {Text("default"), BoolTrue}}

Independent == [dependencies |-> {}, retry_count |-> 0]

InitMap ==
    /\ \E k \in Ids, C \in SUBSET Ids, n \in Ids, d \in MapDefs :
          /\ k \notin C
          /\ registry = [i \in Ids |->
                Definition(Independent, IF i = k THEN C ELSE {}, [p \in {n} |-> d])]
    /\ request \in SeqsOf(Ids, 1, 1 + MaxSub)
    /\ hints = <<>>
    /\ parameters \in {<<>>, [p \in Ids |-> Text("global")]}
    /\ sub_parameters \in
          [1..(Len(request) - 1) -> {<<>>, [p \in Ids |-> Text("sub")]}]
    /\ context \in {<<>>, [p \in Ids |-> Text("context")]}
    /\ plan = NoPlan
    /\ opc = "ready"
    /\ mode = "none"
    /\ ExecIdle
    /\ LibIdle

SpecMap == InitMap /\ [][NextOrch]_vars

(***************************************************************************)
(* IntentExecutor.execute_plan / execute_plan_async on the plan the        *)
(* orchestrate call returned.                                              *)
(***************************************************************************)
Layers == plan.execution_layers

\* d |-> v added to the dict f
Put(f, d, v) == [k \in DOMAIN f \cup {d} |-> IF k = d THEN v ELSE f[k]]

\* lines 193-195, 225-227: start_session, results = {}
ExecutePlan ==
    /\ opc = "done"
    /\ epc = "idle"
    /\ tracker' = start_session(tracker, "session")
    /\ results' = <<>>
    /\ layer_results' = <<>>
    /\ cur' = 1
    /\ pos' = 1
    /\ epc' = "layers"
    /\ UNCHANGED <<mode, task, attempts>>
    /\ UNCHANGED <<orchVars, libVars>>

\* execute_layer_async lines 291-297: one coroutine per intent of the
\* layer, handed to gather
ExecuteLayerAsync ==
    /\ mode = "async"
    /\ epc = "layers"
    /\ cur <= Len(Layers)
    /\ pos' = 1
    /\ epc' = "spawn"
    /\ UNCHANGED <<mode, cur, tracker, task, attempts, layer_results, results>>
    /\ UNCHANGED <<orchVars, libVars>>

\* the event loop runs the coroutines gather scheduled in the order of the
\* layer, each up to its first suspension: _execute_intent_in_layer and
\* execute_single_intent_async up to the await of the executor
TaskStarts ==
    /\ epc = "spawn"
    /\ LET id == Layers[cur][pos]
           e == execute_intent_in_layer(tracker, registry, plan, id)
       IN  /\ tracker' = e.tracker
           /\ task' = [task EXCEPT ![id] = e.call]
    /\ pos' = pos + 1
    /\ epc' = IF pos = Len(Layers[cur]) THEN "gather" ELSE "spawn"
    /\ UNCHANGED <<mode, cur, attempts, layer_results, results>>
    /\ UNCHANGED <<orchVars, libVars>>

\* Whether the await of an executor suspends the coroutine is up to the
\* executor and to wait_for: a coroutine executor that never suspends ends
\* within the first step of its task where wait_for awaits it in place
\* (asyncio.timeout based wait_for), before the next coroutine of the layer
\* has started.  An executor that suspended is resumed only after every
\* coroutine of the layer has made its first step.
MayEnd(id) ==
    \/ epc \in {"gather", "call"}
    \/ epc = "spawn" /\ pos > 1 /\ id = Layers[cur][pos - 1]

\* the executor of a running intent ends, and its call goes on to return,
\* to raise, or to the next attempt's invocation
ExecutorEnds(id, o) ==
    /\ MayEnd(id)
    /\ task[id].pc = "run"
    /\ LET l == Leave(tracker, registry, task[id], o)
       IN  /\ tracker' = l.tracker
           /\ task' = [task EXCEPT ![id] = l.call]
    /\ attempts' = [attempts EXCEPT ![id] = Append(@, o)]
    /\ UNCHANGED <<mode, epc, cur, pos, layer_results, results>>
    /\ UNCHANGED <<orchVars, libVars>>

\* execute_layer_async lines 297-307 and execute_plan_async line 235:
\* gather returns when every task of the layer is done; an exception
\* becomes {"error": str(result)}
\* gather without return_exceptions: the results up to the first error
CollectUntilError(layer, calls, acc) ==
    LET errs == {k \in 1..Len(layer) : calls[layer[k]].res.t = "error"}
        upto == IF errs = {} THEN Len(layer) ELSE Min(errs)
        got == {layer[k] : k \in 1..upto}
    IN  [d \in DOMAIN acc \cup got |-> IF d \in got THEN calls[d].res ELSE acc[d]]

RECURSIVE Collect(_, _, _)
Collect(layer, calls, acc) ==
    IF layer = <<>> THEN acc
    ELSE Collect(Tail(layer), calls, Put(acc, Head(layer), calls[Head(layer)].res))

\* gather returning as soon as one task of the layer is done
GatherReturnsEarly ==
    /\ epc = "gather"
    /\ \E i \in Range(Layers[cur]) : task[i].pc = "done"
    /\ results' = Collect(Layers[cur], task, results)
    /\ cur' = cur + 1
    /\ epc' = "layers"
    /\ UNCHANGED <<mode, pos, tracker, task, attempts, layer_results>>
    /\ UNCHANGED <<orchVars, libVars>>

GatherReturns ==
    /\ epc = "gather"
    /\ \A i \in Range(Layers[cur]) : task[i].pc = "done"
    /\ results' = Collect(Layers[cur], task, results)
    /\ cur' = cur + 1
    /\ epc' = "layers"
    /\ UNCHANGED <<mode, pos, tracker, task, attempts, layer_results>>
    /\ UNCHANGED <<orchVars, libVars>>

\* execute_layer_sync lines 259-270: the next intent of the layer
ExecuteLayerSync ==
    /\ mode = "sync"
    /\ epc = "layers"
    /\ cur <= Len(Layers)
    /\ LET id == Layers[cur][pos]
           e == execute_intent_in_layer(tracker, registry, plan, id)
       IN  /\ tracker' = e.tracker
           /\ task' = [task EXCEPT ![id] = e.call]
    /\ epc' = "call"
    /\ UNCHANGED <<mode, cur, pos, attempts, layer_results, results>>
    /\ UNCHANGED <<orchVars, libVars>>

\* execute_layer_sync line 271, execute_plan line 203: the call returned
SingleReturns ==
    /\ epc = "call"
    /\ LET id == Layers[cur][pos]
           lr == Put(layer_results, id, task[id].res)
       IN  /\ task[id].pc = "done"
           /\ task[id].res.t # "error"
           /\ IF pos < Len(Layers[cur])
              THEN /\ layer_results' = lr
                   /\ pos' = pos + 1
                   /\ UNCHANGED <<cur, results>>
              ELSE /\ results' = [k \in DOMAIN results \cup DOMAIN lr |->
                                    IF k \in DOMAIN lr THEN lr[k] ELSE results[k]]
                   /\ layer_results' = <<>>
                   /\ cur' = cur + 1
                   /\ pos' = 1
    /\ epc' = "layers"
    /\ UNCHANGED <<mode, tracker, task, attempts>>
    /\ UNCHANGED <<orchVars, libVars>>

\* execute_plan lines 205-206: the call raised, nothing catches it before
\* the finally of execute_plan
SingleRaises ==
    /\ epc = "call"
    /\ LET id == Layers[cur][pos]
       IN  /\ task[id].pc = "done"
           /\ task[id].res.t = "error"
    /\ tracker' = end_session(tracker)
    /\ epc' = "raised"
    /\ UNCHANGED <<mode, cur, pos, task, attempts, layer_results, results>>
    /\ UNCHANGED <<orchVars, libVars>>

\* lines 205-208, 237-240: every layer is done
PlanReturns ==
    /\ epc = "layers"
    /\ cur > Len(Layers)
    /\ tracker' = end_session(tracker)
    /\ epc' = "returned"
    /\ UNCHANGED <<mode, cur, pos, task, attempts, layer_results, results>>
    /\ UNCHANGED <<orchVars, libVars>>

(***************************************************************************)
(* The plan runs Spec draws: a, b and c requested in this order, each      *)
(* depending on any of the intents before it; a and c with no retry or     *)
(* with MaxRetry retries, b with none; b registered or not; the inputs of  *)
(* c untyped, or declared objects, or restricted by an enum to the outputs *)
(* of intents, or required while the request has no binding for the        *)
(* parameter named a.  The request binds the parameter named p to the text *)
(* "$p"; with untyped inputs it may bind the parameter b to the boolean    *)
(* True instead (the parameters of a parse result are JSON values).        *)
(***************************************************************************)
Earlier(id) == {j \in Ids : \E k \in 1..3 : <<"a", "b", "c">>[k] = id
                                  /\ \E m \in 1..(k - 1) : <<"a", "b", "c">>[m] = j}

ObjectParam == ParamDef(FALSE, "object", FALSE, None, FALSE)

EnumParam == ParamDef(FALSE, "any", FALSE, None, TRUE)

RequiredParam == ParamDef(TRUE, "any", FALSE, None, FALSE)

\* the registry in which d is the definition of every input of c
WithInputsOfC(f, d) ==
    [i \in DOMAIN f |->
        Definition(f[i], {},
                   IF i = "c" THEN [p \in Inputs(i) |-> d] ELSE PlainInputs(i))]

Init ==
    /\ \E R \in {Ids, Ids \ {"b"}},
          d \in {AnyParam, ObjectParam, EnumParam, RequiredParam},
          flag \in BOOLEAN :
          /\ flag => d = AnyParam
          /\ registry \in
                {WithInputsOfC(f, d) : f \in {g \in [R -> Metadata] :
                    /\ \A i \in R : g[i].dependencies \subseteq Earlier(i)
                    /\ \A i \in R \ {"a", "c"} : g[i].retry_count = 0
                    /\ \A i \in R : g[i].retry_count \in {0, MaxRetry}}}
          /\ parameters =
                LET refs == RefParameters(IF d.required THEN Ids \ {"a"} ELSE Ids)
                IN  IF flag THEN [refs EXCEPT !["b"] = BoolTrue] ELSE refs
    /\ request = <<"a", "b", "c">>
    /\ hints = <<>>
    /\ sub_parameters = NoSubParameters
    /\ context = <<>>
    /\ plan = NoPlan
    /\ opc = "ready"
    /\ mode \in {"sync", "async"}
    /\ ExecIdle
    /\ LibIdle

Next ==
    \/ CallOrchestrate
    \/ ExecutePlan
    \/ ExecuteLayerAsync
    \/ TaskStarts
    \/ \E id \in Ids, o \in Outcomes : ExecutorEnds(id, o)
    \/ GatherReturns
    \/ ExecuteLayerSync
    \/ SingleReturns
    \/ SingleRaises
    \/ PlanReturns

Spec == Init /\ [][Next]_vars


(***************************************************************************)
(* The dependency relation the claims speak of.  <<t, d>>: t depends on d. *)
(***************************************************************************)
RECURSIVE TC(_)
TC(R) ==
    LET step == R \cup {<<p[1][1], p[2][2]>> :
                            p \in {q \in R \X R : q[1][2] = q[2][1]}}
    IN  IF step = R THEN R ELSE TC(step)

Requested == Range(request)

\* the registered dependencies, requested or not
RegisteredEdges ==
    {e \in (DOMAIN registry) \X Ids : e[2] \in registry[e[1]].dependencies}

HintEdges == Range(hints)

\* every requested intent is registered, every dependency is a registered
\* intent, and the hints are about requested intents
WellFormed ==
    /\ Requested \subseteq DOMAIN registry
    /\ \A e \in RegisteredEdges : e[2] \in DOMAIN registry
    /\ \A h \in HintEdges : h[1] \in Requested /\ h[2] \in Requested

\* the edges between requested intents
RequestEdges ==
    {e \in RegisteredEdges : e[1] \in Requested /\ e[2] \in Requested}
        \cup HintEdges

Cyclic(R) == \E x \in Ids : <<x, x>> \in TC(R)

\* the edges of the plan's execution_graph
PlanEdges ==
    LET g == plan.execution_graph
    IN  {e \in Range(g.keys) \X Range(g.keys) : e[1] \in Range(g.adj[e[2]])}

Planned == opc = "done"

\* the index of the layer of the plan that holds id, 0 if none does
LayerOf(id) ==
    LET at == {k \in 1..Len(Layers) : id \in Range(Layers[k])}
    IN  IF at = {} THEN 0 ELSE Min(at)

(***************************************************************************)
(* C1.  Whenever the graph of the requested intents, their registered      *)
(* dependencies and the hints contains a cycle, orchestrate fails with a   *)
(* CyclicDependency error and returns no plan.                             *)
(* The code catches the sort's ValueError and returns a plan.              *)
(***************************************************************************)
C1_CycleIsRejected ==
    (Planned /\ WellFormed /\ Cyclic(RequestEdges)) =>
        plan.outcome = "CyclicDependency"

(***************************************************************************)
(* C2.  Over an acyclic dependency graph, execution_order holds each       *)
(* requested intent exactly once, and every intent that an intent of the   *)
(* order depends on, directly or transitively, stands strictly earlier.    *)
(* The code drops the dependencies that were not requested themselves.     *)
(***************************************************************************)
C2_OrderIsTopological ==
    (Planned /\ WellFormed /\ ~Cyclic(RegisteredEdges \cup HintEdges)) =>
        LET order == plan.execution_order
        IN  /\ \A r \in Requested : Occurrences(order, r) = 1
            /\ \A i \in 1..Len(order) :
                 \A e \in TC(RegisteredEdges \cup HintEdges) :
                    e[1] = order[i] => \E j \in 1..(i - 1) : order[j] = e[2]

(***************************************************************************)
(* C3.  No layer of a plan holds two intents one of which is an ancestor   *)
(* or a descendant of the other in the dependency graph.                   *)
(* The code tests direct dependencies only: of the chain a <- b <- c it    *)
(* puts a and c in one layer.                                              *)
(***************************************************************************)
C3_NoOrderedPairInLayer ==
    (Planned /\ WellFormed) =>
        \A k \in 1..Len(Layers) : \A i, j \in 1..Len(Layers[k]) :
            i # j => <<Layers[k][i], Layers[k][j]>> \notin TC(PlanEdges)

(***************************************************************************)
(* C4.  In a plan run no intent's executor is started before every intent  *)
(* it depends on, directly or transitively, has reached a terminal state.  *)
(* Fails with C3: the layers of the chain a <- b <- c are [a, c], [b].     *)
(***************************************************************************)
C4_StartsAfterDependencies ==
    \A e \in TC(RegisteredEdges) :
        task[e[1]].pc # "idle" => task[e[2]].pc = "done"

(***************************************************************************)
(* C5.  A call whose executor raises on every attempt invokes it exactly   *)
(* retry_count + 1 times and ends failed with the executor's error; no     *)
(* call invokes it more than retry_count + 1 times.                        *)
(* Each retry is a recursive call that starts a new trace whose            *)
(* retry_count is 0, so with retry_count >= 1 the retries never stop.      *)
(***************************************************************************)
Invocations(id) == Len(attempts[id]) + (IF task[id].pc = "run" THEN 1 ELSE 0)

AllRaised(id) == \A k \in 1..Len(attempts[id]) : attempts[id][k] = "raise"

C5_RetryBudget ==
    \A id \in DOMAIN registry :
        /\ Invocations(id) <= registry[id].retry_count + 1
        /\ (task[id].pc = "done" /\ AllRaised(id)) =>
                /\ Len(attempts[id]) = registry[id].retry_count + 1
                /\ task[id].res = ErrorEntry("raise")

(***************************************************************************)
(* C6.  An intent with retry_count n whose executor fails k <= n times and *)
(* then succeeds ends with a trace of status success and retry_count k,    *)
(* and that is the trace get_trace_by_intent reports.                      *)
(* The trace reported is the first attempt's: running, retry_count 1.      *)
(***************************************************************************)
FailedThenSucceeded(id, k) ==
    /\ task[id].pc = "done"
    /\ Len(attempts[id]) = k + 1
    /\ attempts[id][k + 1] = "ok"
    /\ \A m \in 1..k : attempts[id][m] = "raise"

C6_TraceOfRetriedSuccess ==
    \A id \in DOMAIN registry : \A k \in 0..registry[id].retry_count :
        FailedThenSucceeded(id, k) =>
            LET tr == get_trace_by_intent(tracker, id)
            IN  /\ tr # 0
                /\ tracker.traces[tr].status = "success"
                /\ tracker.traces[tr].retry_count = k

(***************************************************************************)
(* C7.  Every intent of a layer resolves its mapping against the data      *)
(* context as it was when the layer started: none observes the output of   *)
(* another intent of its layer.                                            *)
(* execute_layer_sync resolves each mapping after the intents before it    *)
(* in the layer have written their outputs.                                *)
(***************************************************************************)
C7_SiblingOutputsUnseen ==
    \A n \in 1..Len(tracker.traces) :
        LET tr == tracker.traces[n]
        IN  \A p \in DOMAIN tr.input_data :
                LayerOf(p) = LayerOf(tr.intent_id) => tr.input_data[p] = Expr(p)

(***************************************************************************)
(* C8.  The data context is never written while an intent of a layer is    *)
(* still running.                                                          *)
(* complete_intent writes it when an intent ends, whatever its siblings    *)
(* are doing.                                                              *)
(***************************************************************************)
C8_NoWriteWhileRunning ==
    [][tracker'.data_context # tracker.data_context =>
            \A i \in Ids : task'[i].pc # "run"]_vars

(***************************************************************************)
(* C9.  No intent of layer K+1 is started until every intent of layer K    *)
(* has reached a terminal state.                                           *)
(***************************************************************************)
C9_LayerBarrier ==
    \A s, t \in Ids :
        (LayerOf(s) # 0 /\ LayerOf(t) = LayerOf(s) + 1 /\ task[t].pc # "idle")
            => task[s].pc = "done"

\* an intent of the second layer runs, after a retried failure in the first
C9_Witness ==
    \E s, t \in Ids :
        /\ LayerOf(s) = 1 /\ LayerOf(t) = 2
        /\ task[t].pc = "run"
        /\ task[s].res.t = "error" /\ Len(attempts[s]) > 1

(***************************************************************************)
(* C10.  Whenever an intent of a later layer resolves its inputs, the data *)
(* context holds the output of every intent of the layers before it that   *)
(* ended in success with an output that is not None.                       *)
(***************************************************************************)
Succeeded(s) == task[s].pc = "done" /\ task[s].res = Out(s)

InLayers == {id \in Ids : LayerOf(id) # 0}

C11_FailuresAreLocal ==
    /\ epc # "raised"
    /\ epc = "returned" =>
          /\ DOMAIN results = InLayers
          /\ \A id \in InLayers : task[id].pc = "done" /\ results[id] = task[id].res

(***************************************************************************)
(* C12.  In execute_layer_async, once the layer has returned, every intent *)
(* of the layer has reached its own terminal state and has its own slot    *)
(* in the results: an error entry if it failed (unknown id, rejected       *)
(* input, timeout, raised error), else what its executor returned.         *)
(***************************************************************************)
LastAttempt(id) ==
    IF attempts[id] = <<>> THEN "never" ELSE attempts[id][Len(attempts[id])]

C12_SiblingsUnaffected ==
    mode = "async" =>
        \A id \in Ids :
            (LayerOf(id) # 0 /\ LayerOf(id) < cur) =>
                /\ task[id].pc = "done"
                /\ id \in DOMAIN results
                /\ results[id] = task[id].res
                /\ results[id] = CASE LastAttempt(id) = "ok" -> Out(id)
                                   [] LastAttempt(id) = "none" -> None
                                   [] OTHER -> ErrorEntry(results[id].of)

\* a layer returned in which an intent failed and an intent started after
\* it succeeded
C12_Witness ==
    /\ mode = "async"
    /\ \E k \in 1..Len(Layers) : \E i, j \in 1..Len(Layers[k]) :
          /\ k < cur /\ i < j
          /\ results[Layers[k][i]].t = "error"
          /\ results[Layers[k][j]] = Out(Layers[k][j])

(***************************************************************************)
(* C13.  An attempt that times out is treated as one that raised: the      *)
(* intent ends failed by a timeout only when its retry_count retries have  *)
(* been used.                                                              *)
(* The handler of asyncio.TimeoutError fails the trace and re-raises; it   *)
(* never retries.                                                          *)
(***************************************************************************)
C13_TimeoutIsRetried ==
    \A id \in DOMAIN registry :
        (task[id].pc = "done" /\ LastAttempt(id) = "timeout") =>
            Len(attempts[id]) = registry[id].retry_count + 1

(***************************************************************************)
(* C14.  A plan includes every registered intent that a requested intent   *)
(* depends on, directly or transitively, requested or not: with a,         *)
(* b (depends on a) and c (depends on b) registered, the request of c      *)
(* alone gives the order a, b, c in three layers of one intent.            *)
(* The graph is built over the requested intents only.                     *)
(***************************************************************************)
C14_DependenciesAreIncluded ==
    (Planned /\ WellFormed /\ ~Cyclic(RegisteredEdges \cup HintEdges)) =>
        /\ \A e \in TC(RegisteredEdges) :
              e[1] \in Requested => e[2] \in Range(plan.execution_order)
        /\ (/\ request = <<"c">>
            /\ DOMAIN registry = Ids
            /\ registry["a"].dependencies = {}
            /\ registry["b"].dependencies = {"a"}
            /\ registry["c"].dependencies = {"b"}) =>
                /\ plan.execution_order = <<"a", "b", "c">>
                /\ plan.execution_layers = <<<<"a">>, <<"b">>, <<"c">>>>

(***************************************************************************)
(* C15.  A call whose input violates the schema of the intent fails with   *)
(* a validation error; the executor of the intent is not invoked, and the  *)
(* failure is not retried.                                                 *)
(***************************************************************************)
\* the input_data the call of id was made with
InputOf(id) == tracker.traces[get_trace_by_intent(tracker, id)].input_data

Rejected(id) ==
    /\ id \in DOMAIN registry
    /\ get_trace_by_intent(tracker, id) # 0
    /\ ~validate_input(registry[id].inputs, InputOf(id))

C15_RejectedInputNeverRuns ==
    \A id \in Ids :
        Rejected(id) =>
            /\ task[id].pc = "done"
            /\ task[id].res = ErrorEntry("validation")
            /\ attempts[id] = <<>>
            /\ Cardinality({n \in 1..Len(tracker.traces) :
                                tracker.traces[n].intent_id = id}) = 1

\* an intent with retries left was rejected, for an input that an intent
\* which failed left unresolved
C15_Witness ==
    \E id \in DOMAIN registry :
        /\ Rejected(id)
        /\ registry[id].retry_count > 0
        /\ task[id].pc = "done"
        /\ \E p \in DOMAIN InputOf(id) : InputOf(id)[p] = Expr(p)

(***************************************************************************)
(* C16.  A call that rejects its input does so before any side effect:     *)
(* the traces of the tracker and the data context are what they were       *)
(* before the call.                                                        *)
(* start_intent runs before validate_inputs: the rejected call leaves a    *)
(* failed trace.                                                           *)
(***************************************************************************)
C16_RejectionHasNoEffect ==
    [][\A id \in Ids :
          (task[id].pc = "idle" /\ task'[id].res = ErrorEntry("validation")) =>
              /\ tracker'.traces = tracker.traces
              /\ tracker'.data_context = tracker.data_context]_vars

(***************************************************************************)
(* C17.  orchestrate rejects a request that names an intent the registry   *)
(* does not hold with an UnknownTask error: it returns no plan whose       *)
(* execution_order or layers hold an unregistered id.                      *)
(* orchestrate never looks the requested ids up; only the data mappings    *)
(* skip the unregistered ones.                                             *)
(***************************************************************************)
InPlan ==
    Range(plan.execution_order)
        \cup UNION {Range(plan.execution_layers[k]) :
                        k \in 1..Len(plan.execution_layers)}

C17_UnknownTaskIsRejected ==
    Planned =>
        /\ ~(Requested \subseteq DOMAIN registry) => plan.outcome = "UnknownTask"
        /\ plan.outcome = "plan" => InPlan \subseteq DOMAIN registry

(***************************************************************************)
(* C18.  If a requested intent declares a required input for which there   *)
(* is no intent parameter, no global parameter, no context entry and no    *)
(* default, orchestrate reports a plan-construction error and returns no   *)
(* plan.                                                                   *)
(* _generate_data_mappings leaves the parameter out of the mapping and the *)
(* plan is returned.                                                       *)
(***************************************************************************)
TheParseResult == ParseResult(request, hints, parameters, sub_parameters)

Unresolved(i, n) ==
    /\ registry[i].inputs[n].required
    /\ ~HasSource(n, registry[i].inputs[n],
                  get_intent_parameters(TheParseResult, i), parameters, context)

C18_UnresolvedRequiredIsRejected ==
    (Planned /\ \E i \in Requested \cap DOMAIN registry :
                    \E n \in DOMAIN registry[i].inputs : Unresolved(i, n)) =>
        plan.outcome = "PlanConstructionError"

(***************************************************************************)
(* C19.  Two requested intents one of which lists the other in its         *)
(* conflicts are never in the same layer of a plan.                        *)
(* _build_execution_layers never reads metadata.conflicts.                 *)
(***************************************************************************)
C19_ConflictsAreSeparated ==
    Planned =>
        \A k \in 1..Len(Layers) : \A i, j \in Range(Layers[k]) :
            (i # j /\ i \in DOMAIN registry) => j \notin registry[i].conflicts

MaxPriority == 1

\* IntentMetadata.priority beside the fields the engine reads
WithPriority(def, priority) ==
    [dependencies |-> def.dependencies, retry_count |-> def.retry_count,
     conflicts |-> def.conflicts, inputs |-> def.inputs,
     priority |-> priority]

InitPrio ==
    /\ \E deps \in [Ids -> SUBSET Ids], prio \in [Ids -> 0..MaxPriority] :
          /\ \A i \in Ids : deps[i] \subseteq Earlier(i)
          /\ registry = [i \in Ids |->
                WithPriority(Definition([dependencies |-> deps[i], retry_count |-> 0],
                                        {}, PlainInputs(i)),
                             prio[i])]
    /\ request \in SeqsOf(Ids, 1, MaxReq)
    /\ hints = <<>>
    /\ parameters = RefParameters(Ids)
    /\ sub_parameters = NoSubParameters
    /\ context = <<>>
    /\ plan = NoPlan
    /\ opc = "ready"
    /\ mode = "none"
    /\ ExecIdle
    /\ LibIdle

SpecPrio == InitPrio /\ [][NextOrch]_vars

\* the position of the first occurrence of id in s, 0 if there is none
IndexOf(s, id) ==
    LET at == {k \in 1..Len(s) : s[k] = id}
    IN  IF at = {} THEN 0 ELSE Min(at)

Max(S) == CHOOSE x \in S : \A y \in S : x >= y

\* the position of execution_order after which id is ready: the last of
\* the positions of its dependencies in the graph, 0 when it has none
ReadyAfter(id) ==
    Max({0} \cup {IndexOf(plan.execution_order, d) :
                      d \in get_dependencies(id, plan.execution_graph)})

(***************************************************************************)
(* C21.  When several intents are ready at once in the topological sort    *)
(* (no dependency of theirs is still to be emitted), the one of higher     *)
(* priority is emitted into execution_order first; of two intents of equal *)
(* priority that were ready from the start, the one requested first is     *)
(* emitted first.                                                          *)
(* The sort never reads metadata.priority: it emits the ready intents in   *)
(* the order they entered the deque.                                       *)
(***************************************************************************)
C21_ReadyByPriority ==
    Planned =>
        LET order == plan.execution_order
        IN  \A i, j \in 1..Len(order) :
                (i < j /\ ReadyAfter(order[j]) < i) =>
                    /\ registry[order[i]].priority >= registry[order[j]].priority
                    /\ (/\ registry[order[i]].priority = registry[order[j]].priority
                        /\ ReadyAfter(order[i]) = 0
                        /\ ReadyAfter(order[j]) = 0)
                          => IndexOf(request, order[i]) < IndexOf(request, order[j])

\* no requested intent depends, directly or through other registered
\* intents, on a requested intent
PairwiseFree ==
    \A i, j \in Requested : <<i, j>> \notin TC(RegisteredEdges \cup HintEdges)

(***************************************************************************)
(* C22.  When the requested intents are pairwise free of any dependency    *)
(* relation, orchestrate returns exactly one execution layer and it holds  *)
(* every requested intent.                                                 *)
(***************************************************************************)
C22_IndependentShareOneLayer ==
    (Planned /\ PairwiseFree) =>
        /\ Len(Layers) = 1
        /\ Range(Layers[1]) = Requested

\* cpu, mem and disk: three distinct intents without dependencies,
\* requested together and planned
C22_Witness ==
    /\ Planned
    /\ PairwiseFree
    /\ Len(request) = 3
    /\ Requested = Ids
    /\ Len(Layers[1]) = 3

\* how many times id stands in the layers of the plan
TimesInLayers(id) ==
    Cardinality({kp \in (1..Len(Layers)) \X (1..Len(plan.execution_order)) :
                    kp[2] <= Len(Layers[kp[1]]) /\ Layers[kp[1]][kp[2]] = id})

(***************************************************************************)
(* C30.  For every plan orchestrate returns, the layers partition          *)
(* execution_order: every id of execution_order stands in exactly one      *)
(* layer, exactly once; every id of a layer is in execution_order; and no  *)
(* layer is empty.                                                         *)
(* After the cycle fallback (C1) execution_order is the request itself and *)
(* the layering skips every intent one of whose dependencies is not yet    *)
(* placed: the intents of the cycle are in execution_order and in no       *)
(* layer.                                                                  *)
(***************************************************************************)
C30_LayersPartitionOrder ==
    Planned =>
        /\ \A id \in Range(plan.execution_order) : TimesInLayers(id) = 1
        /\ \A k \in 1..Len(Layers) :
              /\ Layers[k] # <<>>
              /\ Range(Layers[k]) \subseteq Range(plan.execution_order)

(***************************************************************************)
(* ExecutionTracker.get_execution_summary: the counts of the traces by     *)
(* status.  total_duration and the per trace list are not modelled.        *)
(***************************************************************************)
WithStatus(tk, status) ==
    Cardinality({i \in 1..Len(tk.traces) : tk.traces[i].status = status})

get_execution_summary(tk) ==
    [session_id |-> tk.current_session_id,
     total_intents |-> Len(tk.traces),
     successful |-> WithStatus(tk, "success"),
     failed |-> WithStatus(tk, "failed"),
     running |-> WithStatus(tk, "running")]

\* the number of tasks in the layers of the plan
TasksInLayers ==
    Cardinality({kp \in (1..Len(Layers)) \X (1..Len(plan.execution_order)) :
                    kp[2] <= Len(Layers[kp[1]])})

(***************************************************************************)
(* C23.  After execute_plan / execute_plan_async returned, the summary     *)
(* agrees with the returned result map: total_intents is the number of     *)
(* tasks in the plan's layers, successful the number of tasks with a       *)
(* success output, failed the number of tasks with an error entry, and     *)
(* successful + failed = total_intents.                                    *)
(* The summary counts traces, not tasks: every retry of a task starts a    *)
(* trace of its own (C6), and a task that is not registered never gets     *)
(* one (C17).                                                              *)
(***************************************************************************)
C23_SummaryAgreesWithResults ==
    epc = "returned" =>
        LET summary == get_execution_summary(tracker)
        IN  /\ summary.total_intents = TasksInLayers
            /\ summary.successful =
                  Cardinality({id \in DOMAIN results : results[id].t # "error"})
            /\ summary.failed =
                  Cardinality({id \in DOMAIN results : results[id].t = "error"})
            /\ summary.successful + summary.failed = summary.total_intents

(***************************************************************************)
(* C24.  end_session clears the session state: once execute_plan or        *)
(* execute_plan_async has ended the session, the tracker holds no traces,  *)
(* an empty data context and no current session id.                        *)
(* end_session resets current_session_id only; the traces and the data     *)
(* context stay until the next start_session.                              *)
(***************************************************************************)
C24_EndSessionClears ==
    epc \in {"returned", "raised"} =>
        /\ tracker.traces = <<>>
        /\ tracker.data_context = <<>>
        /\ tracker.current_session_id = "None"

(***************************************************************************)
(* IntentRegistry.  The registry is [intents, categories, tags_index]:     *)
(* intents the definitions in insertion order (a dict keeps it),           *)
(* categories and tags_index the defaultdict(list) indexes.                *)
(***************************************************************************)
Registry(its, cats, tags) ==
    [intents |-> its, categories |-> cats, tags_index |-> tags]

NewRegistry == Registry(<<>>, <<>>, <<>>)

\* the keys of self._intents
IdsOf(its) == {its[k].id : k \in 1..Len(its)}

\* self._intents[intent_id]
Stored(its, intent_id) == its[CHOOSE k \in 1..Len(its) : its[k].id = intent_id]

\* d[key].append(x) on a defaultdict(list)
AppendTo(d, key, x) ==
    [k \in DOMAIN d \cup {key} |->
        IF k = key THEN Append(IF key \in DOMAIN d THEN d[key] ELSE <<>>, x)
        ELSE d[k]]

\* list.remove(x): the first occurrence goes
RemoveFirst(list, x) ==
    LET k == IndexOf(list, x)
    IN  IF k = 0 THEN list
        ELSE SubSeq(list, 1, k - 1) \o SubSeq(list, k + 1, Len(list))

\* lines 51-53: for tag in intent.metadata.tags: index[tag].append(id)
RECURSIVE IndexTags(_, _, _)
IndexTags(index, tags, intent_id) ==
    IF tags = <<>> THEN index
    ELSE IndexTags(AppendTo(index, Head(tags), intent_id), Tail(tags), intent_id)

\* lines 76-80: for tag in intent.metadata.tags: remove the id from the
\* tag's list if it is there
RECURSIVE UnindexTags(_, _, _)
UnindexTags(index, tags, intent_id) ==
    IF tags = <<>> THEN index
    ELSE UnindexTags([index EXCEPT ![Head(tags)] = RemoveFirst(@, intent_id)],
                     Tail(tags), intent_id)

\* register without lines 41-43, the test of the id: the definition
\* replaces the stored one and is indexed again
register_unchecked(reg, intent) ==
    [raised |-> FALSE,
     reg |-> Registry(
        IF intent.id \in IdsOf(reg.intents)
        THEN [k \in 1..Len(reg.intents) |->
                IF reg.intents[k].id = intent.id THEN intent ELSE reg.intents[k]]
        ELSE Append(reg.intents, intent),
        AppendTo(reg.categories, intent.category, intent.id),
        IndexTags(reg.tags_index, intent.tags, intent.id))]

\* IntentRegistry.register; raised: the ValueError of line 43
register(reg, intent) ==
    IF intent.id \in IdsOf(reg.intents)
    THEN [raised |-> TRUE, reg |-> reg]
    ELSE [raised |-> FALSE,
          reg |-> Registry(
                Append(reg.intents, intent),
                AppendTo(reg.categories, intent.category, intent.id),
                IndexTags(reg.tags_index, intent.tags, intent.id))]

\* the tags of a list, each once, in the order of their first occurrence
RECURSIVE Distinct(_)
Distinct(list) ==
    IF list = <<>> THEN <<>>
    ELSE <<Head(list)>> \o SelectSeq(Distinct(Tail(list)), LAMBDA x : x # Head(list))

\* unregister that visits every tag of the definition once
unregister_by_distinct_tag(reg, intent_id) ==
    IF intent_id \notin IdsOf(reg.intents)
    THEN [returned |-> FALSE, reg |-> reg]
    ELSE LET intent == Stored(reg.intents, intent_id)
         IN  [returned |-> TRUE,
              reg |-> Registry(
                SelectSeq(reg.intents, LAMBDA d : d.id # intent_id),
                [reg.categories EXCEPT ![intent.category] = RemoveFirst(@, intent_id)],
                UnindexTags(reg.tags_index, Distinct(intent.tags), intent_id))]

\* IntentRegistry.unregister
unregister(reg, intent_id) ==
    IF intent_id \notin IdsOf(reg.intents)
    THEN [returned |-> FALSE, reg |-> reg]
    ELSE LET intent == Stored(reg.intents, intent_id)
         IN  [returned |-> TRUE,
              reg |-> Registry(
                SelectSeq(reg.intents, LAMBDA d : d.id # intent_id),
                [reg.categories EXCEPT ![intent.category] = RemoveFirst(@, intent_id)],
                UnindexTags(reg.tags_index, intent.tags, intent_id))]

(***************************************************************************)
(* The calls SpecReg draws: register and unregister in any order, on the   *)
(* ids a and b, with definitions of either category and with up to MaxTags *)
(* tags, repeated or not.                                                  *)
(***************************************************************************)
\* longest metadata.tags list SpecReg draws
MaxTags == 2

Categories == {"data", "control"}

Tags == {"t", "u"}

RegIds == {"a", "b"}

\* the tag lists: up to MaxTags tags, repeated or not, every "t" before
\* every "u" (the index keeps one list per tag, so the order in which a
\* definition names two different tags changes nothing)
TagLists ==
    {tags \in SeqsOf(Tags, 0, MaxTags) :
        \A j, k \in 1..Len(tags) : (j < k /\ tags[j] = "u") => tags[k] = "u"}

RegDefs ==
    {RegDef(id, category, tags, <<>>) :
        id \in RegIds, category \in Categories, tags \in TagLists}

TheRegistry == Registry(intents, categories, tags_index)

OrchIdle ==
    /\ registry = <<>>
    /\ request = <<>>
    /\ hints = <<>>
    /\ parameters = <<>>
    /\ sub_parameters = <<>>
    /\ context = <<>>
    /\ plan = NoPlan
    /\ opc = "idle"
    /\ mode = "none"

InitReg ==
    /\ intents = <<>>
    /\ categories = <<>>
    /\ tags_index = <<>>
    /\ last = NoCall
    /\ ExprIdle
    /\ AppIdle
    /\ OrchIdle
    /\ ExecIdle

Register(intent) ==
    LET r == register(TheRegistry, intent)
    IN  /\ intents' = r.reg.intents
        /\ categories' = r.reg.categories
        /\ tags_index' = r.reg.tags_index
        /\ last' = Call("register", intent.id, intent,
                        IF r.raised THEN "ValueError" ELSE "None", <<>>)
        /\ UNCHANGED <<orchVars, execVars, exprVars, appVars>>

Unregister(intent_id) ==
    LET r == unregister(TheRegistry, intent_id)
    IN  /\ intents' = r.reg.intents
        /\ categories' = r.reg.categories
        /\ tags_index' = r.reg.tags_index
        /\ last' = Call("unregister", intent_id,
                        IF r.returned THEN Stored(intents, intent_id) ELSE NoDef,
                        IF r.returned THEN "True" ELSE "False", <<>>)
        /\ UNCHANGED <<orchVars, execVars, exprVars, appVars>>

NextReg ==
    \/ \E intent \in RegDefs : Register(intent)
    \/ \E intent_id \in RegIds : Unregister(intent_id)

SpecReg == InitReg /\ [][NextReg]_vars

\* the keys of an index whose list holds id
InIndex(index, id) == {k \in DOMAIN index : id \in Range(index[k])}

(***************************************************************************)
(* C25.  register(def) with an id that is already registered fails with a  *)
(* duplicate-id error and leaves the registry unchanged: the stored        *)
(* definition of the id, the category index and the tag index are what     *)
(* they were before the call.                                              *)
(***************************************************************************)
C25_DuplicateIsRejected ==
    [][(last'.op = "register" /\ last'.id \in IdsOf(intents)) =>
            /\ last'.returned = "ValueError"
            /\ intents' = intents
            /\ categories' = categories
            /\ tags_index' = tags_index]_vars

\* a duplicate was rejected whose definition differs from the stored one
\* in category and in tags
C25_Witness ==
    /\ last.op = "register"
    /\ last.returned = "ValueError"
    /\ Stored(intents, last.id).category # last.def.category
    /\ Stored(intents, last.id).tags # last.def.tags
    /\ last.def.tags # <<>>

(***************************************************************************)
(* C26.  After register(def), whatever the registry was and whatever the   *)
(* tags of def (repeated ones included), the id of def is registered; and  *)
(* unregister of a registered id returns true and leaves no occurrence of  *)
(* the id in the main store, in any category list or in any tag list.  So  *)
(* register(def) followed by unregister(def.id) returns true and leaves    *)
(* the registry free of the id.                                            *)
(***************************************************************************)
C26_RoundTripLeavesNoTrace ==
    /\ [](last.op = "register" => last.id \in IdsOf(intents))
    /\ [][(last'.op = "unregister" /\ last'.id \in IdsOf(intents)) =>
            /\ last'.returned = "True"
            /\ last'.id \notin IdsOf(intents')
            /\ InIndex(categories', last'.id) = {}
            /\ InIndex(tags_index', last'.id) = {}]_vars

\* a definition with a repeated tag was unregistered, from a registry in
\* which another intent carries the same tag
C26_Witness ==
    /\ last.op = "unregister"
    /\ last.returned = "True"
    /\ last.def.tags = <<"t", "t">>
    /\ "t" \in DOMAIN tags_index
    /\ tags_index["t"] # <<>>

(***************************************************************************)
(* IntentRegistry.validate_dependencies.  The list it returns holds        *)
(* [kind |-> "missing", intent, dep] for "Intent .. depends on             *)
(* non-existent intent .." and [kind |-> "cycle", path] for "Circular      *)
(* dependency detected: ..".                                               *)
(***************************************************************************)
Missing(intent_id, dep_id) == [kind |-> "missing", intent |-> intent_id, dep |-> dep_id]

Circular(path) == [kind |-> "cycle", path |-> path]

\* lines 223-229: one problem per dependency that is not registered
RECURSIVE MissingOf(_, _, _)
MissingOf(its, intent_id, deps) ==
    IF deps = <<>> THEN <<>>
    ELSE (IF Head(deps) \notin IdsOf(its)
          THEN <<Missing(intent_id, Head(deps))>> ELSE <<>>)
            \o MissingOf(its, intent_id, Tail(deps))

RECURSIVE MissingLoop(_, _)
MissingLoop(its, rest) ==
    IF rest = <<>> THEN <<>>
    ELSE MissingOf(its, Head(rest).id, Head(rest).dependencies)
            \o MissingLoop(its, Tail(rest))

\* the search state: the sets visited and rec_stack and the errors list
Search(visited, rec_stack, errors) ==
    [visited |-> visited, rec_stack |-> rec_stack, errors |-> errors]

\* a search that tests visited before rec_stack
RECURSIVE dfs_visited_first(_, _, _, _)
RECURSIVE dfs(_, _, _, _)
RECURSIVE dfs_each(_, _, _, _)

dfs_visited_first(its, node, path, st) ==
    IF node \in st.visited
    THEN [found |-> FALSE, st |-> st]
    ELSE LET st1 == [st EXCEPT !.visited = @ \cup {node},
                               !.rec_stack = @ \cup {node}]
             r == IF node \in IdsOf(its)
                  THEN dfs_each(its, Stored(its, node).dependencies,
                                Append(path, node), st1)
                  ELSE [found |-> FALSE, st |-> st1]
         IN  IF r.found THEN r
             ELSE [found |-> FALSE, st |-> [r.st EXCEPT !.rec_stack = @ \ {node}]]

\* lines 235-253: dfs(node, path).  Returning True on a cycle it leaves
\* rec_stack as it is (the return of line 250 precedes line 252)
dfs(its, node, path, st) ==
    IF node \in st.rec_stack
    THEN [found |-> TRUE,
          st |-> [st EXCEPT !.errors = Append(@, Circular(Append(path, node)))]]
    ELSE IF node \in st.visited
    THEN [found |-> FALSE, st |-> st]
    ELSE LET st1 == [st EXCEPT !.visited = @ \cup {node},
                               !.rec_stack = @ \cup {node}]
             r == IF node \in IdsOf(its)
                  THEN dfs_each(its, Stored(its, node).dependencies,
                                Append(path, node), st1)
                  ELSE [found |-> FALSE, st |-> st1]
         IN  IF r.found THEN r
             ELSE [found |-> FALSE, st |-> [r.st EXCEPT !.rec_stack = @ \ {node}]]

\* lines 247-250: for dep in dependencies: if dfs(dep, path + [node]): return True
dfs_each(its, deps, path, st) ==
    IF deps = <<>> THEN [found |-> FALSE, st |-> st]
    ELSE LET r == dfs(its, Head(deps), path, st)
         IN  IF r.found THEN r ELSE dfs_each(its, Tail(deps), path, r.st)

\* lines 255-257: for intent_id in self._intents: if not visited: dfs(..)
RECURSIVE DfsLoop(_, _, _)
DfsLoop(its, rest, st) ==
    IF rest = <<>> THEN st
    ELSE DfsLoop(its, Tail(rest),
                 IF Head(rest).id \in st.visited THEN st
                 ELSE dfs(its, Head(rest).id, <<>>, st).st)

validate_dependencies(its) ==
    DfsLoop(its, its, Search({}, {}, MissingLoop(its, its))).errors

(***************************************************************************)
(* The registries SpecDeps draws: any of a, b and c, registered in any     *)
(* order, each with a list of up to MaxDeps distinct dependencies among a, *)
(* b and c, registered or not; validate_dependencies is called on each.    *)
(***************************************************************************)
\* longest metadata.dependencies list SpecDeps draws
MaxDeps == 2

\* the registry after the definitions of a list were registered in turn
RECURSIVE RegistryOf(_)
RegistryOf(defs) ==
    IF defs = <<>> THEN NewRegistry
    ELSE register(RegistryOf(SubSeq(defs, 1, Len(defs) - 1)), defs[Len(defs)]).reg

\* the lists of up to MaxDeps distinct ids
DepLists ==
    {deps \in SeqsOf(Ids, 0, MaxDeps) :
        \A j, k \in 1..Len(deps) : j # k => deps[j] # deps[k]}

DepDefs == {RegDef(id, "data", <<>>, deps) : id \in Ids, deps \in DepLists}

InitDeps ==
    /\ \E defs \in SeqsOf(DepDefs, 0, Cardinality(Ids)) :
          /\ \A j, k \in 1..Len(defs) : j # k => defs[j].id # defs[k].id
          /\ intents = RegistryOf(defs).intents
          /\ categories = RegistryOf(defs).categories
          /\ tags_index = RegistryOf(defs).tags_index
    /\ last = NoCall
    /\ ExprIdle
    /\ AppIdle
    /\ OrchIdle
    /\ ExecIdle

ValidateDependencies ==
    /\ last.op = "none"
    /\ last' = Call("validate_dependencies", "", NoDef, "list",
                    validate_dependencies(intents))
    /\ UNCHANGED <<intents, categories, tags_index>>
    /\ UNCHANGED <<orchVars, execVars, exprVars, appVars>>

NextDeps == ValidateDependencies

SpecDeps == InitDeps /\ [][NextDeps]_vars

\* the dependencies of the registered intents
StoredEdges ==
    {e \in IdsOf(intents) \X Ids : e[2] \in Range(Stored(intents, e[1]).dependencies)}

Dangling == {e \in StoredEdges : e[2] \notin IdsOf(intents)}

Validated == last.op = "validate_dependencies"

(***************************************************************************)
(* C27.  validate_dependencies returns an empty list exactly when every    *)
(* dependency of every registered intent is registered and the registered  *)
(* dependency graph is acyclic; the list holds a missing-reference problem *)
(* for each dangling dependency, and at least one cycle problem whenever   *)
(* there is a cycle.                                                       *)
(***************************************************************************)
C27_ValidateDependencies ==
    Validated =>
        /\ last.errors = <<>> <=> (Dangling = {} /\ ~Cyclic(StoredEdges))
        /\ \A e \in Dangling : Missing(e[1], e[2]) \in Range(last.errors)
        /\ Cyclic(StoredEdges) =>
                \E k \in 1..Len(last.errors) : last.errors[k].kind = "cycle"

\* a dangling dependency and a cycle of two intents, both reported
C27_Witness ==
    /\ Validated
    /\ Dangling # {}
    /\ \E k \in 1..Len(last.errors) :
            /\ last.errors[k].kind = "cycle"
            /\ Len(last.errors[k].path) = 3
    /\ \E k \in 1..Len(last.errors) : last.errors[k].kind = "missing"

(***************************************************************************)
(* The evaluate calls SpecExpr draws: an expression "{{ .. }}" with or     *)
(* without "$json.", with or without a blank before "}}", whose path has   *)
(* up to MaxPath segments, against the context                             *)
(* {ref: {items: [{name: "a"}, {name: "b"}]}}, the context                 *)
(* {ref: {items: []}} or the empty context.                                *)
(***************************************************************************)
\* most segments of the path of an expression
MaxPath == 4

Names == {"ref", "items", "name"}

Segments ==
    {Name(n) : n \in Names} \cup {Index(i) : i \in 0..1} \cup {DotIndex(i) : i \in 0..1}

Paths ==
    {path \in SeqsOf(Segments, 1, MaxPath) : path[1].seg = "name"}

Templates ==
    {Template(json, path, pad) : json \in BOOLEAN, path \in Paths, pad \in BOOLEAN}

Named(n, v) == [k \in {n} |-> v]

Contexts ==
    {Named("ref", Dict(Named("items",
            List(<<Dict(Named("name", Text("a"))), Dict(Named("name", Text("b")))>>)))),
     Named("ref", Dict(Named("items", List(<<>>)))),
     <<>>}

InitExpr ==
    /\ the_expression \in Templates
    /\ the_context \in Contexts
    /\ the_value = None
    /\ xpc = "ready"
    /\ RegIdle
    /\ AppIdle
    /\ OrchIdle
    /\ ExecIdle

Evaluate ==
    /\ xpc = "ready"
    /\ the_value' = evaluate(the_expression, the_context)
    /\ xpc' = "done"
    /\ UNCHANGED <<the_expression, the_context>>
    /\ UNCHANGED <<orchVars, execVars, regVars, appVars>>

NextExpr == Evaluate

SpecExpr == InitExpr /\ [][NextExpr]_vars

\* the value at a dotted path: a name indexes a keyed map, "[i]" and ".i"
\* index a sequence from 0; None where the path does not exist
RECURSIVE Lookup(_, _)
Lookup(val, path) ==
    IF path = <<>> THEN val
    ELSE LET s == Head(path)
         IN  IF s.seg = "name"
             THEN IF val.t = "dict" /\ s.of \in DOMAIN val.items
                  THEN Lookup(val.items[s.of], Tail(path))
                  ELSE None
             ELSE IF val.t = "list" /\ s.at < Len(val.elems)
                  THEN Lookup(val.elems[s.at + 1], Tail(path))
                  ELSE None

(***************************************************************************)
(* C28.  A reference expression whose dotted path exists in the context    *)
(* (names index keyed maps, numeric segments such as [1] index sequences)  *)
(* evaluates to the value at that path; one whose path does not exist      *)
(* evaluates to the expression itself: "{{ ref.items[1].name }}" gives "b" *)
(* against {ref: {items: [{name: "a"}, {name: "b"}]}} and the expression   *)
(* against {ref: {items: []}}.                                             *)
(* No spelling of that expression gives "b": without "$json." the pattern  *)
(* does not match; with it, the segment "[1]" is parsed to the key "[1",   *)
(* which is no index, and the blank before "}}" is taken into the last     *)
(* key.                                                                    *)
(***************************************************************************)
C28_PathResolves ==
    xpc = "done" =>
        LET at == Lookup(Dict(the_context), the_expression.path)
        IN  the_value = IF at # None THEN at ELSE the_expression

RealCycle(path) ==
    /\ Len(path) >= 2
    /\ \A j \in 1..(Len(path) - 1) : <<path[j], path[j + 1]>> \in StoredEdges
    /\ \E j \in 1..(Len(path) - 1) : path[j] = path[Len(path)]

CycleEntries == {k \in 1..Len(last.errors) : last.errors[k].kind = "cycle"}

C31_CycleEntriesAreCycles ==
    Validated => \A k \in CycleEntries : RealCycle(last.errors[k].path)

\* the first cycle problem of a list is a real cycle
C31_FirstCycleEntryIsCycle ==
    (Validated /\ CycleEntries # {}) =>
        RealCycle(last.errors[Min(CycleEntries)].path)

(***************************************************************************)
(* C32.  In every plan orchestrate returns, no layer holds both ends of an *)
(* edge of execution_graph: an intent and one of its direct dependencies   *)
(* are never in the same layer.                                            *)
(***************************************************************************)
C32_NoEdgeInsideLayer ==
    Planned =>
        \A e \in PlanEdges : \A k \in 1..Len(Layers) :
            ~(e[1] \in Range(Layers[k]) /\ e[2] \in Range(Layers[k]))

\* a plan with an intent and a direct dependency of it, each in a layer
C32_Witness ==
    /\ Planned
    /\ \E e \in PlanEdges :
          e[1] # e[2] /\ LayerOf(e[1]) > 0 /\ LayerOf(e[2]) > 0

(***************************************************************************)
(* C34.  At every point of a session every key of the tracker's data       *)
(* context is the id of an intent with a trace of status success in the    *)
(* session, and the value under the key is the output of such a trace:     *)
(* nothing a failed intent produced is in the data context.                *)
(* Holds while one plan call runs at a time; a call that starts during     *)
(* another one empties the trace list, and the intents still running write *)
(* their outputs into the data context afterwards.                         *)
(***************************************************************************)
C34_ContextHoldsSuccessesOnly ==
    \A k \in DOMAIN tracker.data_context :
        \E i \in 1..Len(tracker.traces) :
            /\ tracker.traces[i].intent_id = k
            /\ tracker.traces[i].status = "success"
            /\ tracker.traces[i].output_data = tracker.data_context[k]

(***************************************************************************)
(* Two execute_plan_async calls in progress at once on one IntentExecutor  *)
(* (the agent graph builds one executor and hands it to every run), both   *)
(* on the plan the orchestrate call returned.  The calls are coroutines of *)
(* one event loop: a call runs until it awaits, and the other may run at   *)
(* each await.  A caller is [pc, cur, task, results]: pc "ready" before    *)
(* its call, "spawned" once gather scheduled the coroutines of layer cur,  *)
(* "gather" once they made their first steps, "returned" at the end.       *)
(***************************************************************************)
Callers == 1..2

NewCaller == [pc |-> "ready", cur |-> 0, task |-> [i \in Ids |-> IdleCall],
              results |-> <<>>]

\* execution_tracker.py line 35: start_session binds self.traces to a new
\* list; the trace objects the running calls hold are in it no longer
\* (trace 0 of a running call: a trace outside tracker.traces)
Detached(c) ==
    [c EXCEPT !.task = [i \in Ids |->
        IF @[i].pc = "run" THEN [@[i] EXCEPT !.trace = 0] ELSE @[i]]]

\* complete_intent lines 88-94 and fail_intent on a trace that is not in
\* tracker.traces: the trace object changes, and the data context does
LeaveDetached(tk, intent_id, call, o) ==
    IF o = "ok"
    THEN [tracker |-> [tk EXCEPT !.data_context = Put(@, intent_id, Out(intent_id))],
          call |-> [call EXCEPT !.pc = "done", !.res = Out(intent_id)]]
    ELSE [tracker |-> tk,
          call |-> [call EXCEPT !.pc = "done", !.res = ErrorEntry("raise")]]

\* the first steps of the coroutines of a layer, in the order of the layer
RECURSIVE FirstSteps(_, _, _, _, _)
FirstSteps(layer, tk, calls, reg, p) ==
    IF layer = <<>> THEN [tracker |-> tk, task |-> calls]
    ELSE LET e == execute_intent_in_layer(tk, reg, p, Head(layer))
         IN  FirstSteps(Tail(layer), e.tracker,
                        [calls EXCEPT ![Head(layer)] = e.call], reg, p)

\* execute_plan_async lines 225-231, up to the await of the first layer;
\* with no layer the call ends at once (lines 237-240)
CallStarts(k) ==
    /\ opc = "done"
    /\ callers[k].pc = "ready"
    /\ LET tk == start_session(tracker, "default")
           others == [j \in Callers |-> Detached(callers[j])]
       IN  IF Layers = <<>>
           THEN /\ tracker' = end_session(tk)
                /\ callers' = [others EXCEPT ![k].pc = "returned"]
           ELSE /\ tracker' = tk
                /\ callers' = [others EXCEPT ![k].pc = "spawned", ![k].cur = 1]
    /\ UNCHANGED <<mode, epc, cur, pos, task, attempts, layer_results, results>>
    /\ UNCHANGED <<orchVars, regVars, exprVars, agent, manager>>

\* the coroutines of the layer run up to the await of their executors
LayerStarts(k) ==
    /\ callers[k].pc = "spawned"
    /\ LET f == FirstSteps(Layers[callers[k].cur], tracker, callers[k].task,
                           registry, plan)
       IN  /\ tracker' = f.tracker
           /\ callers' = [callers EXCEPT ![k].task = f.task, ![k].pc = "gather"]
    /\ UNCHANGED <<mode, epc, cur, pos, task, attempts, layer_results, results>>
    /\ UNCHANGED <<orchVars, regVars, exprVars, agent, manager>>

\* the executor of a running intent of caller k returns or raises
CallerTaskEnds(k, id, o) ==
    /\ callers[k].pc = "gather"
    /\ callers[k].task[id].pc = "run"
    /\ LET call == callers[k].task[id]
           l == IF call.trace = 0
                THEN LeaveDetached(tracker, id, call, o)
                ELSE Leave(tracker, registry, call, o)
       IN  /\ tracker' = l.tracker
           /\ callers' = [callers EXCEPT ![k].task[id] = l.call]
    /\ UNCHANGED <<mode, epc, cur, pos, task, attempts, layer_results, results>>
    /\ UNCHANGED <<orchVars, regVars, exprVars, agent, manager>>

\* execute_layer_async lines 297-307, execute_plan_async lines 230-240:
\* gather returns, the loop goes to the next layer or the call ends
CallerGatherReturns(k) ==
    /\ callers[k].pc = "gather"
    /\ LET c == callers[k]
           layer == Layers[c.cur]
       IN  /\ \A i \in Range(layer) : c.task[i].pc = "done"
           /\ IF c.cur = Len(Layers)
              THEN /\ tracker' = end_session(tracker)
                   /\ callers' = [callers EXCEPT
                                    ![k].results = Collect(layer, c.task, @),
                                    ![k].pc = "returned"]
              ELSE /\ tracker' = tracker
                   /\ callers' = [callers EXCEPT
                                    ![k].results = Collect(layer, c.task, @),
                                    ![k].cur = @ + 1,
                                    ![k].pc = "spawned"]
    /\ UNCHANGED <<mode, epc, cur, pos, task, attempts, layer_results, results>>
    /\ UNCHANGED <<orchVars, regVars, exprVars, agent, manager>>

\* a, b and c registered without retries, each depending on any of the
\* intents before it; the request is a, b, c or names no intent (a plan of
\* no layer); the request binds the parameter named p to "$p"
InitCalls ==
    /\ registry \in
          {PlainRegistry(f) : f \in {g \in [Ids -> Metadata] :
              \A i \in Ids : /\ g[i].dependencies \subseteq Earlier(i)
                             /\ g[i].retry_count = 0}}
    /\ request \in {<<>>, <<"a", "b", "c">>}
    /\ hints = <<>>
    /\ parameters = RefParameters(Ids)
    /\ sub_parameters = NoSubParameters
    /\ context = <<>>
    /\ plan = NoPlan
    /\ opc = "ready"
    /\ mode = "async"
    /\ ExecIdle
    /\ RegIdle
    /\ ExprIdle
    /\ callers = [k \in Callers |-> NewCaller]
    /\ agent = [node |-> "idle"]
    /\ manager = [pc |-> "idle"]

NextCalls ==
    \/ CallOrchestrate
    \/ \E k \in Callers : CallStarts(k)
    \/ \E k \in Callers : LayerStarts(k)
    \/ \E k \in Callers, id \in Ids, o \in {"ok", "raise"} : CallerTaskEnds(k, id, o)
    \/ \E k \in Callers : CallerGatherReturns(k)

SpecCalls == InitCalls /\ [][NextCalls]_vars

InProgress(k) == callers # <<>> /\ callers[k].pc \in {"spawned", "gather"}

(***************************************************************************)
(* C33.  Two execute_plan_async calls in progress on one executor do not   *)
(* interfere: while a call is in progress the traces of its running        *)
(* intents are in the tracker, and every output its earlier layers         *)
(* produced is in the data context, with a trace of status success, where  *)
(* its later layers read it.                                               *)
(***************************************************************************)
C33_CallsDoNotInterfere ==
    \A k \in Callers : InProgress(k) =>
        /\ \A i \in Ids : callers[k].task[i].pc = "run" =>
              callers[k].task[i].trace # 0
        /\ \A d \in DOMAIN callers[k].results :
              callers[k].results[d].t = "out" =>
                 /\ d \in DOMAIN tracker.data_context
                 /\ \E i \in 1..Len(tracker.traces) :
                       /\ tracker.traces[i].intent_id = d
                       /\ tracker.traces[i].status = "success"

\* the same while the other call has not started or has returned
C33_OneCallAtATime ==
    (\A k \in Callers : InProgress(k) =>
        \A j \in Callers \ {k} : callers[j].pc = "ready") =>
            C33_CallsDoNotInterfere

(***************************************************************************)
(* The agent graph: START -> intent_parse -> orchestrate -> execute ->     *)
(* reflect -> synthesize -> END, with the conditional edges of             *)
(* create_yagent_graph.  agent is the graph state (the fields the nodes    *)
(* and the routes read) and node, the node to run next; "raised": a node   *)
(* raised and the run was given up.  Two fields record history: continues  *)
(* counts the times reflect was followed by execute, rerun the intents the *)
(* execute node ran since the last reflect step.                           *)
(***************************************************************************)
\* largest max_iterations SpecAgent draws
MaxIterations == 2

NewAgentState(max_iterations) ==
    [node |-> "intent_parse",
     detected_intents |-> <<>>, intent_parameters |-> <<>>,
     orchestration_plan |-> None,
     intent_results |-> <<>>, data_context |-> <<>>, current_layer |-> 0,
     reflection_result |-> None,
     iteration |-> 0, max_iterations |-> max_iterations,
     is_complete |-> FALSE,
     continues |-> 0, rerun |-> 0]

\* nodes.py lines 76-99: the parser's result, or [] when it raised
intent_parse_node(state, parsed) ==
    IF parsed.raised THEN [state EXCEPT !.detected_intents = <<>>]
    ELSE [state EXCEPT !.detected_intents = parsed.ids,
                       !.intent_parameters = parsed.parameters]

route_after_parse(state) ==
    IF state.detected_intents # <<>> THEN "orchestrate" ELSE "synthesize"

\* nodes.py lines 132-179: the sub intents carry no parameters, there are
\* no hints and no context
intent_orchestrate_node(state, reg) ==
    IF state.detected_intents = <<>>
    THEN [state EXCEPT !.orchestration_plan = None]
    ELSE LET ids == state.detected_intents
             parse_result ==
                 ParseResult(ids, <<>>, state.intent_parameters,
                             [k \in 1..(Len(ids) - 1) |-> <<>>])
         IN  [state EXCEPT !.orchestration_plan = orchestrate(reg, parse_result, <<>>),
                           !.current_layer = 0]

route_after_orchestrate(state) ==
    IF state.orchestration_plan # None THEN "execute" ELSE "synthesize"

\* nodes.py lines 260-283: resolve_mapping stands before the try, so what
\* it raises leaves the node; every error of the call becomes an entry
LayerRaises(state, layer) ==
    \E i \in Range(layer) :
        LET input_data == resolve_mapping(MappingOf(state.orchestration_plan, i),
                                          state.data_context)
        IN  \E key \in DOMAIN input_data : input_data[key].t = "raised"

\* nodes.py lines 201-252; failed: the intents of the layer whose call
\* raised.  current_layer is advanced and never set back
intent_execute_node(state, reg, failed) ==
    IF state.orchestration_plan = None
       \/ state.current_layer >= Len(state.orchestration_plan.execution_layers)
    THEN [state EXCEPT !.is_complete = TRUE]
    ELSE LET layers == state.orchestration_plan.execution_layers
             layer == layers[state.current_layer + 1]
             of_layer ==
                 [i \in Range(layer) |->
                     IF i \in failed \/ i \notin DOMAIN reg
                     THEN ErrorEntry("raise") ELSE Out(i)]
             merged(d) == [k \in DOMAIN d \cup Range(layer) |->
                             IF k \in Range(layer) THEN of_layer[k] ELSE d[k]]
         IN  IF LayerRaises(state, layer) THEN [state EXCEPT !.node = "raised"]
             ELSE [state EXCEPT
                     !.intent_results = merged(@),
                     !.data_context = merged(@),
                     !.current_layer = @ + 1,
                     !.is_complete = state.current_layer + 1 >= Len(layers),
                     !.rerun = @ + Len(layer)]

route_after_execute(state) ==
    IF state.orchestration_plan # None
    THEN IF state.current_layer >= Len(state.orchestration_plan.execution_layers)
         THEN "reflect" ELSE "execute"
    ELSE "synthesize"

ReflectionResult(should_continue) == [should_continue |-> should_continue]

HasErrors(intent_results) ==
    \E i \in DOMAIN intent_results : intent_results[i].t = "error"

\* nodes.py lines 410-435: "continue" or "retry" in the reply, and fewer
\* than 0.8 of the results without error
parse_reflection(reply, intent_results) ==
    LET successful == {i \in DOMAIN intent_results : intent_results[i].t # "error"}
        total == Cardinality(DOMAIN intent_results)
    IN  ReflectionResult(reply = "continue" /\ 5 * Cardinality(successful) < 4 * total)

\* a reflect_node that leaves iteration as it is
reflect_node_uncounted(state, reply) ==
    IF state.iteration >= state.max_iterations \/ state.intent_results = <<>>
    THEN [state EXCEPT !.reflection_result = ReflectionResult(FALSE),
                       !.is_complete = TRUE]
    ELSE IF reply # "raise"
    THEN LET r == parse_reflection(reply, state.intent_results)
         IN  [state EXCEPT !.reflection_result = r,
                           !.is_complete = ~r.should_continue]
    ELSE [state EXCEPT
            !.reflection_result = ReflectionResult(HasErrors(state.intent_results)),
            !.is_complete = ~HasErrors(state.intent_results)]

\* nodes.py lines 291-366; reply: what the LLM answered, "raise" when the
\* invocation raised (also when there is no LLM)
reflect_node(state, reply) ==
    IF state.iteration >= state.max_iterations
    THEN [state EXCEPT !.reflection_result = ReflectionResult(FALSE),
                       !.is_complete = TRUE]
    ELSE IF state.intent_results = <<>>
    THEN [state EXCEPT !.reflection_result = ReflectionResult(FALSE),
                       !.is_complete = TRUE]
    ELSE IF reply # "raise"
    THEN LET r == parse_reflection(reply, state.intent_results)
         IN  [state EXCEPT !.reflection_result = r,
                           !.is_complete = ~r.should_continue,
                           !.iteration = @ + 1]
    ELSE LET has_errors == HasErrors(state.intent_results)
         IN  [state EXCEPT
                !.reflection_result =
                    ReflectionResult(has_errors
                                     /\ state.iteration < state.max_iterations),
                !.is_complete = ~has_errors,
                !.iteration = @ + 1]

\* graph.py lines 141-153
route_after_reflect(state) ==
    IF state.reflection_result # None /\ state.reflection_result.should_continue
    THEN "execute" ELSE "synthesize"

\* nodes.py lines 440-472: both branches complete the run
synthesize_node(state) == [state EXCEPT !.is_complete = TRUE]

\* what the parser may return: no intent, a, or a and b, and the
\* parameters of the request, "$p" for the parameter named p or the
\* boolean True for the parameter b
Parsed ==
    [raised : {FALSE},
     ids : {<<>>, <<"a">>, <<"a", "b">>},
     parameters : {RefParameters(Ids), [RefParameters(Ids) EXCEPT !["b"] = BoolTrue]}]
        \cup {[raised |-> TRUE, ids |-> <<>>, parameters |-> <<>>]}

Replies == {"continue", "done", "raise"}

IntentParse ==
    /\ agent.node = "intent_parse"
    /\ \E parsed \in Parsed :
          LET state == intent_parse_node(agent, parsed)
          IN  agent' = [state EXCEPT !.node = route_after_parse(state)]
    /\ UNCHANGED <<orchVars, execVars, regVars, exprVars, callers, manager>>

Orchestrate ==
    /\ agent.node = "orchestrate"
    /\ LET state == intent_orchestrate_node(agent, registry)
       IN  agent' = [state EXCEPT !.node = route_after_orchestrate(state)]
    /\ UNCHANGED <<orchVars, execVars, regVars, exprVars, callers, manager>>

Execute ==
    /\ agent.node = "execute"
    /\ \E failed \in SUBSET Ids :
          LET state == intent_execute_node(agent, registry, failed)
          IN  agent' = IF state.node = "raised" THEN state
                       ELSE [state EXCEPT !.node = route_after_execute(state)]
    /\ UNCHANGED <<orchVars, execVars, regVars, exprVars, callers, manager>>

Reflect ==
    /\ agent.node = "reflect"
    /\ \E reply \in Replies :
          LET state == reflect_node(agent, reply)
              next == route_after_reflect(state)
          IN  agent' = [state EXCEPT
                          !.node = next,
                          !.continues = IF next = "execute" THEN @ + 1 ELSE @,
                          !.rerun = 0]
    /\ UNCHANGED <<orchVars, execVars, regVars, exprVars, callers, manager>>

Synthesize ==
    /\ agent.node = "synthesize"
    /\ agent' = [synthesize_node(agent) EXCEPT !.node = "END"]
    /\ UNCHANGED <<orchVars, execVars, regVars, exprVars, callers, manager>>

\* a, b and c registered; a and b may depend on each other (a plan of a and
\* b has no layer then); max_iterations up to MaxIterations
InitAgent ==
    /\ registry \in
          {PlainRegistry(f) : f \in {g \in [Ids -> Metadata] :
              /\ g["a"].dependencies \subseteq {"b"}
              /\ g["b"].dependencies \subseteq {"a"}
              /\ g["c"].dependencies = {}
              /\ \A i \in Ids : g[i].retry_count = 0}}
    /\ request = <<>>
    /\ hints = <<>>
    /\ parameters = <<>>
    /\ sub_parameters = <<>>
    /\ context = <<>>
    /\ plan = NoPlan
    /\ opc = "idle"
    /\ mode = "none"
    /\ ExecIdle
    /\ RegIdle
    /\ ExprIdle
    /\ callers = <<>>
    /\ agent \in {NewAgentState(m) : m \in 0..MaxIterations}
    /\ manager = [pc |-> "idle"]

NextAgent ==
    \/ IntentParse
    \/ Orchestrate
    \/ Execute
    \/ Reflect
    \/ Synthesize

SpecAgent == InitAgent /\ [][NextAgent]_vars

\* the graph runs the next node as long as there is one
SpecAgentLive == SpecAgent /\ WF_vars(NextAgent)

C35_EndsOrRaises ==
    /\ [](agent.continues <= agent.max_iterations)
    /\ <>(agent.node \in {"END", "raised"})

\* only a parameter that is no string makes a node raise
C35_RaisesOnNonStringOnly ==
    agent.node = "raised" =>
        \E p \in DOMAIN agent.intent_parameters :
            agent.intent_parameters[p].t = "bool"

(***************************************************************************)
(* C36.  When the reflect step decides to continue, the plan is executed   *)
(* again: the execute node runs at least one intent of the plan before the *)
(* next reflect step.                                                      *)
(* Nothing sets current_layer back, so the execute node finds every layer  *)
(* done, runs nothing and hands over to reflect again.                     *)
(***************************************************************************)
C36_ContinueRunsThePlanAgain ==
    (agent.node = "reflect" /\ agent.continues > 0) => agent.rerun > 0

\* after a decision to continue the execute node never runs an intent
C36_ContinueRunsNothing ==
    (agent.node \in {"execute", "reflect"} /\ agent.continues > 0) =>
        agent.rerun = 0

(***************************************************************************)
(* WorkflowIntentManager (workflow/workflow_manager.py) over the workflow  *)
(* definitions of workflow/workflow_intent.py.  The manager is the record  *)
(* of its fields: intents the definitions in insertion order (a dict keeps *)
(* it), graph and reverse_graph the adjacency lists _build_graph derives,  *)
(* current_intent, execution_history, and registry, the IntentRegistry it  *)
(* was constructed with (None: constructed without one).                   *)
(***************************************************************************)
\* longest execution history the model lets process_completion build
MaxHistory == 2

WfIds == {"a", "b"}

\* WorkflowIntentDefinition: the id, the relations, the default category
WorkflowIntentDefinition(id, pre_intents, post_intents) ==
    [id |-> id, category |-> "workflow",
     pre_intents |-> pre_intents, post_intents |-> post_intents]

\* to_intent_definition: the pre intents become the dependencies, the tags
\* are metadata.get("tags", []) of a definition without metadata
to_intent_definition(intent) ==
    RegDef(intent.id, intent.category, <<>>, intent.pre_intents)

\* self._intents[intent.id] = intent: a stored id keeps its place
StoreIntent(its, intent) ==
    IF intent.id \in IdsOf(its)
    THEN [k \in 1..Len(its) |-> IF its[k].id = intent.id THEN intent ELSE its[k]]
    ELSE Append(its, intent)

\* _build_graph: the forward graph of the post intents
build_graph(its) == [id \in IdsOf(its) |-> Stored(its, id).post_intents]

\* _build_graph: the reverse graph of the pre intents
build_reverse_graph(its) == [id \in IdsOf(its) |-> Stored(its, id).pre_intents]

\* WorkflowIntentManager.__init__
NewManager(reg) ==
    [pc |-> "ready", intents |-> <<>>, graph |-> <<>>, reverse_graph |-> <<>>,
     current_intent |-> "None", execution_history |-> <<>>, registry |-> reg,
     last |-> [op |-> "none", id |-> "", returned |-> "None"]]

\* "if self._registry:": None is false, and so is a registry without
\* intents, as IntentRegistry defines __len__
Truthy(reg) == reg # None /\ Len(reg.intents) > 0

\* WorkflowIntentManager.register_intent: the definition is stored and the
\* graphs rebuilt (lines 79-80) before the registry is asked (lines 83-85)
register_intent(m, intent) ==
    LET its == StoreIntent(m.intents, intent)
        r == IF Truthy(m.registry)
             THEN register(m.registry, to_intent_definition(intent))
             ELSE [raised |-> FALSE, reg |-> m.registry]
    IN  [m EXCEPT !.intents = its,
                  !.graph = build_graph(its),
                  !.reverse_graph = build_reverse_graph(its),
                  !.registry = r.reg,
                  !.last = [op |-> "register_intent", id |-> intent.id,
                            returned |-> IF r.raised THEN "ValueError" ELSE "None"]]

\* WorkflowIntentManager.set_current_intent
set_current_intent(m, intent_id) ==
    IF intent_id \notin IdsOf(m.intents)
    THEN [m EXCEPT !.last = [op |-> "set_current_intent", id |-> intent_id,
                             returned |-> "False"]]
    ELSE [m EXCEPT !.current_intent = intent_id,
                   !.last = [op |-> "set_current_intent", id |-> intent_id,
                             returned |-> "True"]]

\* WorkflowIntentManager.process_completion: an unknown id gives the error
\* entry (lines 336-340), any other id is appended (line 343)
process_completion(m, intent_id) ==
    IF intent_id \notin IdsOf(m.intents)
    THEN [m EXCEPT !.last = [op |-> "process_completion", id |-> intent_id,
                             returned |-> "error"]]
    ELSE [m EXCEPT !.execution_history = Append(@, intent_id),
                   !.last = [op |-> "process_completion", id |-> intent_id,
                             returned |-> "completed"]]

\* the definitions the calls register: a and b, each with or without the
\* other as pre intent and as post intent
WorkflowDefs ==
    {WorkflowIntentDefinition(id, pre, post) :
        id \in WfIds,
        pre \in {<<>>} \cup {<<o>> : o \in WfIds},
        post \in {<<>>} \cup {<<o>> : o \in WfIds}}

\* the registries a manager is constructed with: none, an empty one, one
\* that holds c
GivenRegistries ==
    {None, NewRegistry, register(NewRegistry, RegDef("c", "data", <<>>, <<>>)).reg}

RegisterIntent(intent) ==
    /\ manager.pc = "ready"
    /\ manager' = register_intent(manager, intent)
    /\ UNCHANGED <<orchVars, execVars, regVars, exprVars, callers, agent>>

SetCurrentIntent(intent_id) ==
    /\ manager.pc = "ready"
    /\ manager' = set_current_intent(manager, intent_id)
    /\ UNCHANGED <<orchVars, execVars, regVars, exprVars, callers, agent>>

ProcessCompletion(intent_id) ==
    /\ manager.pc = "ready"
    /\ Len(manager.execution_history) < MaxHistory
    /\ manager' = process_completion(manager, intent_id)
    /\ UNCHANGED <<orchVars, execVars, regVars, exprVars, callers, agent>>

InitFlow ==
    /\ OrchIdle
    /\ ExecIdle
    /\ RegIdle
    /\ ExprIdle
    /\ callers = <<>>
    /\ agent = [node |-> "idle"]
    /\ manager \in {NewManager(reg) : reg \in GivenRegistries}

NextFlow ==
    \/ \E intent \in WorkflowDefs : RegisterIntent(intent)
    \/ \E intent_id \in Ids : SetCurrentIntent(intent_id)
    \/ \E intent_id \in Ids : ProcessCompletion(intent_id)

SpecFlow == InitFlow /\ [][NextFlow]_vars

(***************************************************************************)
(* C37.  An intent is recorded as completed (process_completion appends it *)
(* to the execution history) only if every one of its pre intents is       *)
(* already in the execution history: the pre intents of an intent always   *)
(* precede it in the history.                                              *)
(***************************************************************************)
C37_CompletionNeedsPreIntents ==
    [][(manager.pc = "ready"
        /\ manager'.execution_history # manager.execution_history)
       => Range(Stored(manager.intents, manager'.last.id).pre_intents)
             \subseteq Range(manager.execution_history)]_vars

\* what process_completion does keep: the history grows by the id of the
\* call, which the manager knows, and by nothing else
C37_CompletionOfKnownIntent ==
    [][(manager.pc = "ready"
        /\ manager'.execution_history # manager.execution_history)
       => /\ manager'.last.op = "process_completion"
          /\ manager'.last.id \in IdsOf(manager.intents)
          /\ manager'.execution_history
                = Append(manager.execution_history, manager'.last.id)]_vars

(***************************************************************************)
(* C38.  register_intent is all-or-nothing: when registering the converted *)
(* definition in the IntentRegistry raises, the manager's intent table and *)
(* its forward and reverse graphs are what they were before the call, so   *)
(* that manager and registry never disagree about the definition an id     *)
(* denotes.                                                                *)
(***************************************************************************)
\* manager and registry agree on the ids both hold
Agree(m) ==
    m.registry # None =>
        \A id \in IdsOf(m.intents) \cap IdsOf(m.registry.intents) :
            Stored(m.registry.intents, id)
                = to_intent_definition(Stored(m.intents, id))

C38_RegisterIntentAllOrNothing ==
    [][(manager.pc = "ready"
        /\ manager'.last.op = "register_intent"
        /\ manager'.last.returned = "ValueError")
       => /\ manager'.intents = manager.intents
          /\ manager'.graph = manager.graph
          /\ manager'.reverse_graph = manager.reverse_graph
          /\ Agree(manager')]_vars

\* what a register_intent that raised does keep: the registry, the history
\* and the current intent
C38_RaiseLeavesRegistry ==
    [][(manager.pc = "ready"
        /\ manager'.last.op = "register_intent"
        /\ manager'.last.returned = "ValueError")
       => /\ manager'.registry = manager.registry
          /\ manager'.execution_history = manager.execution_history
          /\ manager'.current_intent = manager.current_intent]_vars

=============================================================================
